---------------------------- MODULE Spec2Model ----------------------------
(***************************************************************************)
(* A model of vsv, a front end to the runit supervisor: decoding of the    *)
(* 20-byte supervise/status record, the single-byte control channel, the   *)
(* control subcommands (with the restart sequence), the enumeration of     *)
(* service directories, the down marker (enable, disable), the process     *)
(* tree read from the proc directory, the follower of a log file, the      *)
(* offset at which its initial read starts and the service descriptor.     *)
(*                                                                         *)
(* Numbers wider than 31 bits are kept as sequences of 16-bit limbs, most  *)
(* significant limb first (a u64 is 4 limbs, a u32 is 2 limbs).  Strings   *)
(* and characters are kept as sequences of code points / code points.      *)
(***************************************************************************)
EXTENDS Integers, Sequences, FiniteSets, TLC

VARIABLES
    statusFile,     \* supervise/status of one service: [exists, data]
    statusResult,   \* what the last RunitService::get_status returned
    svdir,          \* per service name: [supervise, control, pipe]
    cmd,            \* the control subcommand given to commands::control::run
    services,       \* its list of service names
    pc,             \* where run is: "begin", "loop", "send", "cont", "up", "done"
    idx,            \* the (1-based) position of run in the list of services
    log,            \* per service handled so far: what run did and printed
    runResult,      \* what run returned: "Running", "Ok" or "Err"
    lastSend,       \* the last call of RunitService::control and what it returned
    dirEntries,     \* the entries of the service directory, as read_dir yields them
    dirReadable,    \* whether read_dir of the service directory succeeds
    logFlag,        \* the log argument of get_services
    filter,         \* the filter argument of get_services: None or Some(string)
    listResult,     \* what the last get_services returned
    svcDir,         \* one service directory: [exists, down, run]
    opLog,          \* the calls of enable and disable made on it, in order
    procTable,      \* the entries of the proc directory, as read_dir yields them
    procReadable,   \* whether read_dir of the proc directory succeeds
    rootPid,        \* the root_pid argument of get_pstree
    treeResult,     \* what the last get_pstree returned
    logFile,        \* the log file: its lines, each [id, len, hit, written]
    nextId,         \* the id of the next line written to the log file
    filterStr,      \* the filter_str argument of follow_file_filtered
    nLines,         \* its n_lines argument
    readAll,        \* its read_all argument
    fpc,            \* where it is: "open", "seek", "loop", "done"
    fpos,           \* the offset of its open file
    pos,            \* its variable pos, the tracked follow position
    partial,        \* its variable partial_line
    printed,        \* what it has printed, in order
    followResult,   \* "Running", or how it ended: "Ok", "Err", "Interrupted"
    writes,         \* the number of changes made to the log file by its writer
    tailFile,       \* the log file as it was when the initial read was made
    idle,           \* the last poll read nothing and saw no truncation, and
                    \* the file has not changed since
    shrunkAt,       \* the length of printed when the file was last truncated
                    \* below pos, -1 when it never was
    startFileLen,   \* the length of the file get_tail_content opened, a u64
    startLines,     \* its n_lines argument, a usize of 64 bits
    startAll,       \* its read_all argument
    startResult,    \* the start_pos it computed, or that it panicked
    byteFile,       \* the bytes appended to a log file behind the follow position
    byteFilter,     \* the filter_str of the follow loop that reads them
    bytePos,        \* its variable pos, counted from that position
    bytePartial,    \* its variable partial_line, as characters
    bytePrinted,    \* the lines it has printed, as characters
    byteResult,     \* "Running", or "Err" once a read has failed
    byteWrites,     \* the number of writes made to the file
    svcFiles,       \* per service name: its down marker, its status file, its log service
    wantPstree,     \* the want_pstree argument of Service::from_runit_service
    descs,          \* per service name: the descriptor built for it, if any
    abortedBy       \* the service whose descriptor the process panicked on, "" if none

statusVars == <<statusFile, statusResult>>

controlVars == <<svdir, cmd, services, pc, idx, log, runResult, lastSend>>

registryVars == <<dirEntries, dirReadable, logFlag, filter, listResult>>

toggleVars == <<svcDir, opLog>>

treeVars == <<procTable, procReadable, rootPid, treeResult>>

followVars == <<logFile, nextId, filterStr, nLines, readAll, fpc, fpos, pos,
                partial, printed, followResult, writes, tailFile, idle,
                shrunkAt>>

startVars == <<startFileLen, startLines, startAll, startResult>>

byteVars == <<byteFile, byteFilter, bytePos, bytePartial, bytePrinted,
              byteResult, byteWrites>>

descVars == <<svcFiles, wantPstree, descs, abortedBy>>

vars == <<statusVars, controlVars, registryVars, toggleVars, treeVars,
          followVars, startVars, byteVars, descVars>>

\* what the actions of one component leave alone
outsideStatus ==
    <<controlVars, registryVars, toggleVars, treeVars, followVars,
      startVars, byteVars,
      descVars>>

outsideControl ==
    <<statusVars, registryVars, toggleVars, treeVars, followVars,
      startVars, byteVars,
      descVars>>

outsideRegistry ==
    <<statusVars, controlVars, toggleVars, treeVars, followVars,
      startVars, byteVars,
      descVars>>

outsideToggle ==
    <<statusVars, controlVars, registryVars, treeVars, followVars,
      startVars, byteVars,
      descVars>>

outsideTree ==
    <<statusVars, controlVars, registryVars, toggleVars, followVars,
      startVars, byteVars,
      descVars>>

outsideFollow ==
    <<statusVars, controlVars, registryVars, toggleVars, treeVars,
      startVars, byteVars,
      descVars>>

outsideStart ==
    <<statusVars, controlVars, registryVars, toggleVars, treeVars,
      followVars, byteVars,
      descVars>>

outsideBytes ==
    <<statusVars, controlVars, registryVars, toggleVars, treeVars,
      followVars, startVars,
      descVars>>

outsideDesc ==
    <<statusVars, controlVars, registryVars, toggleVars, treeVars,
      followVars, startVars, byteVars>>

-----------------------------------------------------------------------------
(* Bounds of the model *)

\* the longest status file is 20 + MaxExtra bytes
MaxExtra == 2

\* the longest list of services given to a control subcommand
MaxServices == 2

\* the largest number of entries of the service directory
MaxEntries == 3

\* the largest number of enable and disable calls made on one service
MaxOps == 3

\* the largest number of entries of the proc directory
MaxProcs == 2

\* the largest number of changes the writer makes to the log file
MaxWrites == 2

-----------------------------------------------------------------------------
(* Fixed-width arithmetic on limbs *)

\* the base of a limb: 16 bits
Limb == 256 * 256

\* u64::from_be_bytes: 8 bytes, most significant first, to 4 limbs
from_be_bytes_u64(b) ==
    << b[1] * 256 + b[2], b[3] * 256 + b[4], b[5] * 256 + b[6], b[7] * 256 + b[8] >>

\* u32::from_le_bytes: 4 bytes, least significant first, to 2 limbs
from_le_bytes_u32(b) ==
    << b[4] * 256 + b[3], b[2] * 256 + b[1] >>

\* a >= b on u64
RECURSIVE GeLimbs(_, _)
GeLimbs(a, b) ==
    IF a = << >> THEN TRUE
    ELSE IF Head(a) # Head(b) THEN Head(a) > Head(b)
    ELSE GeLimbs(Tail(a), Tail(b))

\* a - b on limbs with a >= b: least significant limb last, borrow runs leftwards
RECURSIVE SubLimbs(_, _, _)
SubLimbs(a, b, borrow) ==
    IF a = << >> THEN << >>
    ELSE LET n == Len(a)
             d == a[n] - b[n] - borrow
         IN  SubLimbs(SubSeq(a, 1, n - 1), SubSeq(b, 1, n - 1), IF d < 0 THEN 1 ELSE 0)
                \o << IF d < 0 THEN d + Limb ELSE d >>

\* `pid_raw as pid_t`: the 32 bits read as a two's complement i32
as_pid_t(raw) ==
    IF raw[1] >= 32768 THEN (raw[1] - Limb) * Limb + raw[2]
    ELSE raw[1] * Limb + raw[2]

-----------------------------------------------------------------------------
(* RunitService::get_status *)

\* let offset = 4611686018427387914u64 = 2^62 + 10 = 0x4000_0000_0000_000A
offset == << 16384, 0, 0, 10 >>

None == [some |-> FALSE]
Some(v) == [some |-> TRUE, val |-> v]

StatusErr(e) == [kind |-> "Err", err |-> e]
StatusPanic == [kind |-> "Panic"]

\* the match with the states in the order of the enum (Run, Down, Finish)
StateOfByte_enum_order(b) ==
    CASE b = 0 -> "Run"
      [] b = 1 -> "Down"
      [] b = 2 -> "Finish"
      [] OTHER -> "Unknown"

\* match buf[19] { 0 => Down, 1 => Run, 2 => Finish, _ => Unknown }
StateOfByte(b) ==
    CASE b = 0 -> "Down"
      [] b = 1 -> "Run"
      [] b = 2 -> "Finish"
      [] OTHER -> "Unknown"

\* SystemTime::UNIX_EPOCH + Duration::from_secs(secs): the seconds of a
\* SystemTime are an i64, and `+` panics when the sum does not fit
EpochPlusOverflows(secs) == secs[1] >= 32768

\* the decoding of the 20 bytes read into buf
DecodeBuf(buf) ==
    LET state   == StateOfByte(buf[20])
        pid_raw == from_le_bytes_u32(SubSeq(buf, 13, 16))
        pid     == IF pid_raw # << 0, 0 >> THEN Some(as_pid_t(pid_raw)) ELSE None
        paused  == (buf[17] = 1)
        want    == buf[18]
        tai     == from_be_bytes_u64(SubSeq(buf, 1, 8))
    IN  IF GeLimbs(tai, offset)
        THEN LET secs == SubLimbs(tai, offset, 0)
             IN  IF EpochPlusOverflows(secs) THEN StatusPanic
                 ELSE [kind |-> "Ok", state |-> state, pid |-> pid,
                       start_time |-> Some(secs), want |-> want, paused |-> paused]
        ELSE [kind |-> "Ok", state |-> state, pid |-> pid,
              start_time |-> None, want |-> want, paused |-> paused]

\* File::open, then read_exact of 20 bytes: fewer than 20 bytes is an
\* UnexpectedEof error, bytes after the 20th are never read
get_status(f) ==
    IF ~f.exists THEN StatusErr("NotFound")
    ELSE IF Len(f.data) < 20 THEN StatusErr("UnexpectedEof")
    ELSE DecodeBuf(SubSeq(f.data, 1, 20))

-----------------------------------------------------------------------------
(* Status files the supervisor may have left *)

Bytes8(n) == << n[1] \div 256, n[1] % 256, n[2] \div 256, n[2] % 256,
                n[3] \div 256, n[3] % 256, n[4] \div 256, n[4] % 256 >>

\* TAI64 stamps around the epoch offset, around offset + 2^63, and the extremes
TaiSamples ==
    { << 0, 0, 0, 0 >>, << 16384, 0, 0, 9 >>, << 16384, 0, 0, 10 >>,
      << 16384, 0, 0, 11 >>, << 16384, 0, 26000, 4660 >>,
      << 49152, 0, 0, 9 >>, << 49152, 0, 0, 10 >>,
      << 65535, 65535, 65535, 65535 >> }

\* bytes 12..15 as written: none, 1, 1234, 2^31 - 1, 2^31, 2^32 - 1
PidSamples ==
    { << 0, 0, 0, 0 >>, << 1, 0, 0, 0 >>, << 210, 4, 0, 0 >>,
      << 255, 255, 255, 127 >>, << 0, 0, 0, 128 >>, << 255, 255, 255, 255 >> }

PadSamples == { << 0, 0, 0, 0 >>, << 1, 2, 3, 4 >> }
PausedSamples == { 0, 1, 2 }
WantSamples == { 117, 100 }
Byte18Samples == { 0, 7 }
StateSamples == { 0, 1, 2, 3, 128, 255 }

Records ==
    { Bytes8(t) \o pad \o p \o << pa, w, x, s >> :
        t \in TaiSamples, pad \in PadSamples, p \in PidSamples,
        pa \in PausedSamples, w \in WantSamples, x \in Byte18Samples,
        s \in StateSamples }

ShortLens == { 0, 8, 19 }

Zeros(n) == [i \in 1..n |-> 0]

StatusFiles ==
    { [exists |-> FALSE, data |-> << >>] }
    \cup { [exists |-> TRUE, data |-> r] : r \in Records }
    \cup { [exists |-> TRUE, data |-> SubSeq(r, 1, n)] : r \in Records, n \in ShortLens }
    \cup { [exists |-> TRUE, data |-> r \o Zeros(n)] : r \in Records, n \in 1..MaxExtra }

StatusIdle ==
    /\ statusFile = [exists |-> FALSE, data |-> << >>]
    /\ statusResult = [kind |-> "NotRun"]

GetStatus ==
    /\ statusResult.kind = "NotRun"
    /\ statusResult' = get_status(statusFile)
    /\ UNCHANGED statusFile
    /\ UNCHANGED outsideStatus

-----------------------------------------------------------------------------
(* RunitCommand and RunitService::control *)

RunitCommand ==
    { "Up", "Down", "Once", "Pause", "Cont", "Hup", "Alarm", "Interrupt",
      "Quit", "Term", "Kill", "Exit" }

\* to_char with the arm of Hup giving 'u' (hang Up), the byte of Up
to_char_hup_as_u(c) ==
    CASE c = "Up"        -> 117
      [] c = "Down"      -> 100
      [] c = "Once"      -> 111
      [] c = "Pause"     -> 112
      [] c = "Cont"      -> 99
      [] c = "Hup"       -> 117
      [] c = "Alarm"     -> 97
      [] c = "Interrupt" -> 105
      [] c = "Quit"      -> 113
      [] c = "Term"      -> 116
      [] c = "Kill"      -> 107
      [] c = "Exit"      -> 120

\* RunitCommand::to_char, the character as its code point
to_char(c) ==
    CASE c = "Up"        -> 117
      [] c = "Down"      -> 100
      [] c = "Once"      -> 111
      [] c = "Pause"     -> 112
      [] c = "Cont"      -> 99
      [] c = "Hup"       -> 104
      [] c = "Alarm"     -> 97
      [] c = "Interrupt" -> 105
      [] c = "Quit"      -> 113
      [] c = "Term"      -> 116
      [] c = "Kill"      -> 107
      [] c = "Exit"      -> 120

\* `c as u8`
as_u8(c) == c % 256

ServiceNames == { "a", "b" }

\* a service directory: whether supervise/ exists, whether supervise/control
\* exists (it cannot without supervise/), and the bytes in the control pipe
ServiceDirs ==
    { [supervise |-> FALSE, control |-> FALSE, pipe |-> << >>],
      [supervise |-> TRUE,  control |-> FALSE, pipe |-> << >>],
      [supervise |-> TRUE,  control |-> TRUE,  pipe |-> << >>] }

\* what the operating system does to the open and the write of one call
IoFaults == { "none", "open", "write" }

\* RunitService::valid
valid(dir) == dir.supervise

\* pipe_path.exists(): false also when the path cannot be examined
pipe_exists(dir) == dir.control

\* control without the test of pipe_path.exists(): the open fails instead
control_unchecked(dir, c, io) ==
    IF ~pipe_exists(dir) \/ io = "open"
    THEN [res |-> "OpenFailed", wrote |-> << >>, created |-> FALSE]
    ELSE IF io = "write"
    THEN [res |-> "WriteFailed", wrote |-> << >>, created |-> FALSE]
    ELSE [res |-> "Ok", wrote |-> << as_u8(to_char(c)) >>, created |-> FALSE]

\* control writing the character and a newline
control_newline(dir, c, io) ==
    IF ~pipe_exists(dir)
    THEN [res |-> "NotSupervised", wrote |-> << >>, created |-> FALSE]
    ELSE IF io = "open"
    THEN [res |-> "OpenFailed", wrote |-> << >>, created |-> FALSE]
    ELSE IF io = "write"
    THEN [res |-> "WriteFailed", wrote |-> << >>, created |-> FALSE]
    ELSE [res |-> "Ok", wrote |-> << as_u8(to_char(c)), 10 >>, created |-> FALSE]

\* RunitService::control on directory dir: what it returns, the bytes it adds
\* to the pipe and whether it created supervise/control.
\* OpenOptions::new().write(true) never creates the file; write_all of one
\* byte writes it or fails with nothing written.
control(dir, c, io) ==
    IF ~pipe_exists(dir)
    THEN [res |-> "NotSupervised", wrote |-> << >>, created |-> FALSE]
    ELSE IF io = "open"
    THEN [res |-> "OpenFailed", wrote |-> << >>, created |-> FALSE]
    ELSE IF io = "write"
    THEN [res |-> "WriteFailed", wrote |-> << >>, created |-> FALSE]
    ELSE [res |-> "Ok", wrote |-> << as_u8(to_char(c)) >>, created |-> FALSE]

-----------------------------------------------------------------------------
(* commands::control::run *)

ControlCommands ==
    { "Start", "Stop", "Restart", "Reload", "Once", "Pause", "Cont", "Hup",
      "Alarm", "Interrupt", "Quit", "Term", "Kill", "Exit" }

\* the match on cmd: the command to send, None for Restart
CommandOf(k) ==
    CASE k = "Start"     -> Some("Up")
      [] k = "Stop"      -> Some("Down")
      [] k = "Restart"   -> None
      [] k = "Reload"    -> Some("Hup")
      [] k = "Once"      -> Some("Once")
      [] k = "Pause"     -> Some("Pause")
      [] k = "Cont"      -> Some("Cont")
      [] k = "Hup"       -> Some("Hup")
      [] k = "Alarm"     -> Some("Alarm")
      [] k = "Interrupt" -> Some("Interrupt")
      [] k = "Quit"      -> Some("Quit")
      [] k = "Term"      -> Some("Term")
      [] k = "Kill"      -> Some("Kill")
      [] k = "Exit"      -> Some("Exit")

RECURSIVE SeqsUpTo(_, _)
SeqsUpTo(S, n) ==
    IF n = 0 THEN { << >> }
    ELSE LET shorter == SeqsUpTo(S, n - 1)
         IN  shorter \cup { Append(q, x) : q \in shorter, x \in S }

ServiceLists == SeqsUpTo(ServiceNames, MaxServices)

NoDir == [supervise |-> FALSE, control |-> FALSE, pipe |-> << >>]

NoSend == [svc |-> "", cmd |-> "", res |-> "None",
           before |-> [n \in ServiceNames |-> NoDir]]

ControlIdle ==
    /\ svdir = [n \in ServiceNames |-> NoDir]
    /\ cmd = "Start"
    /\ services = << >>
    /\ pc = "done"
    /\ idx = 1
    /\ log = << >>
    /\ runResult = "Ok"
    /\ lastSend = NoSend

\* Send with the chain going on to its next call whatever the call returned
Send_unchained(c, io, next) ==
    LET name == services[idx]
        r    == control(svdir[name], c, io)
        att  == Append(log[idx].attempts, [cmd |-> c, res |-> r.res])
    IN  /\ svdir' = [svdir EXCEPT ![name].pipe = @ \o r.wrote,
                                   ![name].control = @ \/ r.created]
        /\ lastSend' = [svc |-> name, cmd |-> c, res |-> r.res, before |-> svdir]
        /\ IF next # "loop"
           THEN /\ log' = [log EXCEPT ![idx].attempts = att]
                /\ idx' = idx
                /\ pc' = next
           ELSE /\ log' = [log EXCEPT ![idx].attempts = att,
                                      ![idx].printed =
                                          IF r.res = "Ok" THEN "ok" ELSE "failed"]
                /\ idx' = idx + 1
                /\ pc' = "loop"
        /\ UNCHANGED <<cmd, services, runResult>>
        /\ UNCHANGED outsideControl

\* one call svc.control(c) made by run for the service at idx, with the
\* operating system answering io.  The pipe gets the bytes written and the
\* log entry of the service gets the attempt.  When the call failed, or was
\* the last of its chain (next = "loop"), the match on result prints "ok" or
\* "failed" and the loop goes to the next service; and_then makes the next
\* call of the chain only after an Ok.
Send(c, io, next) ==
    LET name == services[idx]
        r    == control(svdir[name], c, io)
        att  == Append(log[idx].attempts, [cmd |-> c, res |-> r.res])
    IN  /\ svdir' = [svdir EXCEPT ![name].pipe = @ \o r.wrote,
                                   ![name].control = @ \/ r.created]
        /\ lastSend' = [svc |-> name, cmd |-> c, res |-> r.res, before |-> svdir]
        /\ IF r.res = "Ok" /\ next # "loop"
           THEN /\ log' = [log EXCEPT ![idx].attempts = att]
                /\ idx' = idx
                /\ pc' = next
           ELSE /\ log' = [log EXCEPT ![idx].attempts = att,
                                      ![idx].printed =
                                          IF r.res = "Ok" THEN "ok" ELSE "failed"]
                /\ idx' = idx + 1
                /\ pc' = "loop"
        /\ UNCHANGED <<cmd, services, runResult>>
        /\ UNCHANGED outsideControl

\* ensure!(!services.is_empty(), ...)
RunBegin ==
    /\ pc = "begin"
    /\ IF services = << >>
       THEN pc' = "done" /\ runResult' = "Err"
       ELSE pc' = "loop" /\ UNCHANGED runResult
    /\ UNCHANGED <<svdir, cmd, services, idx, log, lastSend>>
    /\ UNCHANGED outsideControl

\* the head of the loop body without the test of svc.valid(): every service
\* goes on to its send
RunValid_unchecked ==
    /\ pc = "loop"
    /\ idx <= Len(services)
    /\ LET name == services[idx]
       IN  /\ log' = Append(log, [name |-> name, valid |-> valid(svdir[name]),
                                   before |-> svdir[name].pipe,
                                   attempts |-> << >>, printed |-> ""])
           /\ idx' = idx
           /\ pc' = "send"
    /\ UNCHANGED <<svdir, cmd, services, runResult, lastSend>>
    /\ UNCHANGED outsideControl

\* the head of the loop body: the service is named, and skipped when not valid
RunValid ==
    /\ pc = "loop"
    /\ idx <= Len(services)
    /\ LET name == services[idx]
       IN  IF ~valid(svdir[name])
           THEN /\ log' = Append(log, [name |-> name, valid |-> FALSE,
                                       before |-> svdir[name].pipe,
                                       attempts |-> << >>, printed |-> "not valid"])
                /\ idx' = idx + 1
                /\ pc' = "loop"
           ELSE /\ log' = Append(log, [name |-> name, valid |-> TRUE,
                                       before |-> svdir[name].pipe,
                                       attempts |-> << >>, printed |-> ""])
                /\ idx' = idx
                /\ pc' = "send"
    /\ UNCHANGED <<svdir, cmd, services, runResult, lastSend>>
    /\ UNCHANGED outsideControl
\* if let Some(c) = command: the single command of the subcommand
RunSend ==
    /\ pc = "send"
    /\ CommandOf(cmd).some
    /\ \E io \in IoFaults : Send(CommandOf(cmd).val, io, "loop")

\* the restart sequence: svc.control(RunitCommand::Term)
RunRestartTerm ==
    /\ pc = "send"
    /\ ~CommandOf(cmd).some
    /\ \E io \in IoFaults : Send("Term", io, "cont")

\* .and_then(|_| svc.control(RunitCommand::Cont))
RunRestartCont ==
    /\ pc = "cont"
    /\ \E io \in IoFaults : Send("Cont", io, "up")

\* .and_then(|_| svc.control(RunitCommand::Up))
RunRestartUp ==
    /\ pc = "up"
    /\ \E io \in IoFaults : Send("Up", io, "loop")

\* the loop is over: Ok(())
RunEnd ==
    /\ pc = "loop"
    /\ idx > Len(services)
    /\ pc' = "done"
    /\ runResult' = "Ok"
    /\ UNCHANGED <<svdir, cmd, services, idx, log, lastSend>>
    /\ UNCHANGED outsideControl

-----------------------------------------------------------------------------
(* RunitService ordering and get_services *)

\* str::cmp and OsStr::cmp: byte-wise lexicographic; -1, 0 or 1
RECURSIVE cmp_str(_, _)
cmp_str(a, b) ==
    IF a = << >> THEN (IF b = << >> THEN 0 ELSE -1)
    ELSE IF b = << >> THEN 1
    ELSE IF Head(a) < Head(b) THEN -1
    ELSE IF Head(a) > Head(b) THEN 1
    ELSE cmp_str(Tail(a), Tail(b))

\* the components joined with '/'
RECURSIVE join_path(_)
join_path(p) ==
    IF p = << >> THEN << >>
    ELSE IF Len(p) = 1 THEN Head(p)
    ELSE Head(p) \o << 47 >> \o join_path(Tail(p))

\* the paths compared as strings instead of component by component
cmp_path_as_string(p, q) == cmp_str(join_path(p), join_path(q))

\* Path::cmp: the components compared one by one
RECURSIVE cmp_path(_, _)
cmp_path(p, q) ==
    IF p = << >> THEN (IF q = << >> THEN 0 ELSE -1)
    ELSE IF q = << >> THEN 1
    ELSE LET c == cmp_str(Head(p), Head(q))
         IN  IF c # 0 THEN c ELSE cmp_path(Tail(p), Tail(q))

\* the derived Ord of RunitService with the fields in the order name, path
service_cmp_name_first(x, y) ==
    LET c == cmp_str(x.name, y.name)
    IN  IF c # 0 THEN c ELSE cmp_path(x.path, y.path)

\* #[derive(Ord)] on RunitService { path, name }: by path, then by name
service_cmp(x, y) ==
    LET c == cmp_path(x.path, y.path)
    IN  IF c # 0 THEN c ELSE cmp_str(x.name, y.name)

\* q, sorted, with x put behind every element that is not greater than x
RECURSIVE insert_sorted(_, _)
insert_sorted(q, x) ==
    IF q = << >> THEN << x >>
    ELSE IF service_cmp(q[Len(q)], x) <= 0 THEN Append(q, x)
    ELSE Append(insert_sorted(SubSeq(q, 1, Len(q) - 1), x), q[Len(q)])

\* dirs.sort() left out
sort_left_out(q) == q

\* dirs.sort(): the stable sort by service_cmp
RECURSIVE sort(_)
sort(q) ==
    IF q = << >> THEN << >>
    ELSE insert_sorted(sort(SubSeq(q, 1, Len(q) - 1)), q[Len(q)])

\* the filter matched at the start of the name only (starts_with)
contains_anchored(s, sub) ==
    Len(sub) <= Len(s) /\ SubSeq(s, 1, Len(sub)) = sub

\* str::contains: sub occurs in s at some position
contains(s, sub) ==
    \E i \in 0..(Len(s) - Len(sub)) : SubSeq(s, i + 1, i + Len(sub)) = sub

\* OsStr::to_str of the names of the model: bytes below 128 are ASCII, and
\* the other byte the names use, 255, occurs in no UTF-8 string
to_str_ok(name) == \A i \in 1..Len(name) : name[i] < 128

\* the path of the service directory, one component: "sv"
SvDir == << << 115, 118 >> >>

\* "log" and "- log"
LogComponent == << 108, 111, 103 >>
LogName == << 45, 32, 108, 111, 103 >>

\* RunitService::new
RunitService_new(name, path) == [path |-> path, name |-> name]

ListErr == [kind |-> "Err"]

\* the loop of get_services over the entries left, dirs being what was pushed
RECURSIVE collect(_, _, _, _)
collect(entries, lg, flt, dirs) ==
    IF entries = << >> THEN [kind |-> "Ok", list |-> dirs]
    ELSE LET e == Head(entries)
             p == Append(SvDir, e.name)
         IN  IF ~e.is_dir THEN collect(Tail(entries), lg, flt, dirs)
             ELSE IF ~to_str_ok(e.name) THEN ListErr
             ELSE IF flt.some /\ ~contains(e.name, flt.val)
                  THEN collect(Tail(entries), lg, flt, dirs)
             ELSE LET d1 == Append(dirs, RunitService_new(e.name, p))
                      d2 == IF lg /\ e.has_log
                            THEN Append(d1, RunitService_new(LogName, Append(p, LogComponent)))
                            ELSE d1
                  IN  collect(Tail(entries), lg, flt, d2)

\* get_services(path, log, filter)
get_services(readable, entries, lg, flt) ==
    IF ~readable THEN ListErr
    ELSE LET r == collect(entries, lg, flt, << >>)
         IN  IF r.kind = "Ok" THEN [kind |-> "Ok", list |-> sort(r.list)] ELSE r

\* the entries a service directory may hold: a, b, c, a-b and a name that is
\* not UTF-8; a regular file, a directory, or a directory with log/ in it
Entry(n, d, l) == [name |-> n, is_dir |-> d, has_log |-> l]

EntryChoices ==
    { Entry(<< 97 >>, FALSE, FALSE), Entry(<< 97 >>, TRUE, FALSE), Entry(<< 97 >>, TRUE, TRUE),
      Entry(<< 98 >>, TRUE, FALSE), Entry(<< 98 >>, TRUE, TRUE),
      Entry(<< 99 >>, FALSE, FALSE), Entry(<< 99 >>, TRUE, FALSE),
      Entry(<< 97, 45, 98 >>, TRUE, FALSE), Entry(<< 97, 45, 98 >>, TRUE, TRUE),
      Entry(<< 255 >>, FALSE, FALSE), Entry(<< 255 >>, TRUE, FALSE) }

\* the listings of up to n entries with distinct names, in every order
RECURSIVE Listings(_)
Listings(n) ==
    IF n = 0 THEN { << >> }
    ELSE LET shorter == Listings(n - 1)
             fresh(q) == { e \in EntryChoices : \A i \in 1..Len(q) : q[i].name # e.name }
         IN  shorter \cup
             UNION { { Append(q, e) : e \in fresh(q) } :
                     q \in { r \in shorter : Len(r) = n - 1 } }

\* None, "a", "-b", "A"
Filters == { None, Some(<< 97 >>), Some(<< 45, 98 >>), Some(<< 65 >>) }

RegistryIdle ==
    /\ dirEntries = << >>
    /\ dirReadable = TRUE
    /\ logFlag = FALSE
    /\ filter = None
    /\ listResult = [kind |-> "Ok", list |-> << >>]

GetServices ==
    /\ listResult.kind = "NotRun"
    /\ listResult' = get_services(dirReadable, dirEntries, logFlag, filter)
    /\ UNCHANGED <<dirEntries, dirReadable, logFlag, filter>>
    /\ UNCHANGED outsideRegistry

-----------------------------------------------------------------------------
(* Enabling and disabling a service: RunitService::enabled, enable, disable *)

\* what a path of the service directory holds: nothing, a regular file of
\* len bytes, or a directory
Absent == [kind |-> "absent", len |-> 0]

RegularFile(n) == [kind |-> "file", len |-> n]

Directory == [kind |-> "dir", len |-> 0]

\* Path::exists
exists(dir, file) == dir.exists /\ dir[file].kind # "absent"

\* RunitService::enabled: there is no service/down
enabled(dir) == ~exists(dir, "down")

\* fs::remove_file(service/down), the operating system answering io: the
\* error kind ("none" when the file is gone) and the directory afterwards
remove_file(dir, io) ==
    IF io = "denied" THEN [err |-> "PermissionDenied", dir |-> dir]
    ELSE IF ~exists(dir, "down") THEN [err |-> "NotFound", dir |-> dir]
    ELSE IF dir.down.kind = "dir" THEN [err |-> "IsADirectory", dir |-> dir]
    ELSE [err |-> "none", dir |-> [dir EXCEPT !.down = Absent]]

\* fs::File::create(service/down): creates the file or truncates the one
\* that is there
File_create(dir, io) ==
    IF io = "denied" THEN [err |-> "PermissionDenied", dir |-> dir]
    ELSE IF ~dir.exists THEN [err |-> "NotFound", dir |-> dir]
    ELSE IF dir.down.kind = "dir" THEN [err |-> "IsADirectory", dir |-> dir]
    ELSE [err |-> "none", dir |-> [dir EXCEPT !.down = RegularFile(0)]]

\* enable with a marker that is not there reported as the error it is
enable_strict(dir, io) ==
    LET r == remove_file(dir, io)
    IN  [res |-> IF r.err = "none" THEN "Ok" ELSE "Err", dir |-> r.dir]

\* RunitService::enable: NotFound is success, any other error is returned
enable(dir, io) ==
    LET r == remove_file(dir, io)
    IN  [res |-> IF r.err \in {"none", "NotFound"} THEN "Ok" ELSE "Err",
         dir |-> r.dir]

\* disable opening the marker without truncating it
disable_keep(dir, io) ==
    LET r == File_create(dir, io)
    IN  [res |-> IF r.err = "none" THEN "Ok" ELSE "Err",
         dir |-> IF r.err = "none" /\ exists(dir, "down") THEN dir ELSE r.dir]

\* RunitService::disable
disable(dir, io) ==
    LET r == File_create(dir, io)
    IN  [res |-> IF r.err = "none" THEN "Ok" ELSE "Err", dir |-> r.dir]

\* the answers of the operating system to the one system call of a toggle
ToggleFaults == {"none", "denied"}

\* the service directories the calls are made on
ToggleDirs ==
    { [exists |-> FALSE, down |-> Absent, run |-> Absent] } \cup
    { [exists |-> TRUE, down |-> d, run |-> RegularFile(5)] :
        d \in { Absent, RegularFile(0), RegularFile(3), Directory } }

ToggleIdle ==
    /\ svcDir = [exists |-> FALSE, down |-> Absent, run |-> Absent]
    /\ opLog = << >>

\* one call of enable
Enable ==
    /\ Len(opLog) < MaxOps
    /\ \E io \in ToggleFaults :
        LET r == enable(svcDir, io)
        IN  /\ svcDir' = r.dir
            /\ opLog' = Append(opLog, [op |-> "enable", io |-> io, res |-> r.res,
                                       before |-> svcDir, after |-> r.dir])
    /\ UNCHANGED outsideToggle

\* one call of disable
Disable ==
    /\ Len(opLog) < MaxOps
    /\ \E io \in ToggleFaults :
        LET r == disable(svcDir, io)
        IN  /\ svcDir' = r.dir
            /\ opLog' = Append(opLog, [op |-> "disable", io |-> io, res |-> r.res,
                                       before |-> svcDir, after |-> r.dir])
    /\ UNCHANGED outsideToggle

-----------------------------------------------------------------------------
(* Strings of the proc files: searching, splitting, parsing, formatting *)

\* char::is_whitespace
is_whitespace(c) == c \in {9, 10, 11, 12, 13, 32}

\* char::is_numeric: the decimal digits, and the other numeric characters
\* that occur in the names below (superscript two, arabic-indic three)
is_numeric(c) == c \in 48..57 \/ c \in {178, 1635}

\* str::find(ch): the first position of ch in s, 0 when there is none
find(s, ch) ==
    IF \E i \in 1..Len(s) : s[i] = ch
    THEN CHOOSE i \in 1..Len(s) : s[i] = ch /\ \A j \in 1..(i - 1) : s[j] # ch
    ELSE 0

\* str::rfind(ch): the last position of ch in s, 0 when there is none
rfind(s, ch) ==
    IF \E i \in 1..Len(s) : s[i] = ch
    THEN CHOOSE i \in 1..Len(s) : s[i] = ch /\ \A j \in (i + 1)..Len(s) : s[j] # ch
    ELSE 0

\* str::trim_end
RECURSIVE trim_end(_)
trim_end(s) ==
    IF s # << >> /\ is_whitespace(s[Len(s)])
    THEN trim_end(SubSeq(s, 1, Len(s) - 1))
    ELSE s

\* str::trim_start
RECURSIVE trim_start(_)
trim_start(s) ==
    IF s # << >> /\ is_whitespace(Head(s)) THEN trim_start(Tail(s)) ELSE s

\* str::trim
trim(s) == trim_end(trim_start(s))

\* str::replace('\0', " ")
replace_nul(s) == [i \in 1..Len(s) |-> IF s[i] = 0 THEN 32 ELSE s[i]]

\* str::split_whitespace, collected: the maximal runs without whitespace
RECURSIVE split_whitespace(_)
split_whitespace(s) ==
    LET t == trim_start(s)
    IN  IF t = << >> THEN << >>
        ELSE LET n == IF \E i \in 1..Len(t) : is_whitespace(t[i])
                      THEN find([i \in 1..Len(t) |->
                                   IF is_whitespace(t[i]) THEN 32 ELSE 0], 32) - 1
                      ELSE Len(t)
             IN  << SubSeq(t, 1, n) >> \o split_whitespace(SubSeq(t, n + 1, Len(t)))

\* the value of a string of decimal digits, -1 when a character is no
\* decimal digit or the value does not fit pid_t (i32)
RECURSIVE digits_value(_, _)
digits_value(s, acc) ==
    IF s = << >> THEN acc
    ELSE LET d == Head(s) - 48
         IN  IF d \notin 0..9 THEN -1
             ELSE IF acc > 214748364 \/ (acc = 214748364 /\ d > 7) THEN -1
             ELSE digits_value(Tail(s), acc * 10 + d)

\* str::parse::<pid_t>().unwrap_or(0): the value of an optional sign and
\* decimal digits; 0 when there is no digit, another character, or a
\* magnitude above 2^31 - 1
parse_or_0(s) ==
    LET signed == s # << >> /\ Head(s) \in {43, 45}
        digits == IF signed THEN Tail(s) ELSE s
        v      == digits_value(digits, 0)
    IN  IF digits = << >> \/ v < 0 THEN 0
        ELSE IF signed /\ Head(s) = 45 THEN 0 - v
        ELSE v

\* format!("{}", pid)
RECURSIVE to_string(_)
to_string(n) ==
    IF n < 0 THEN << 45 >> \o to_string(0 - n)
    ELSE IF n < 10 THEN << 48 + n >>
    ELSE to_string(n \div 10) \o << 48 + (n % 10) >>

-----------------------------------------------------------------------------
(* utils::get_pstree and build_tree_recursive *)

\* the outcome of a slice &s[a..b] that is out of range
SlicePanic == [panic |-> TRUE, val |-> << >>]

Sliced(v) == [panic |-> FALSE, val |-> v]

\* the parent id read from a stat record: the second whitespace-separated
\* field behind the last ')'; 0 without ')' or without two fields.  The
\* slice &stat_content[r_paren + 2..] panics when ')' is the last byte.
ppid_of(stat) ==
    LET r == rfind(stat, 41)
    IN  IF r = 0 THEN Sliced(0)
        ELSE IF r + 1 > Len(stat) THEN SlicePanic
        ELSE LET parts == split_whitespace(SubSeq(stat, r + 2, Len(stat)))
             IN  Sliced(IF Len(parts) >= 2 THEN parse_or_0(parts[2]) ELSE 0)

\* the text between the first '(' and the last ')' of a stat record;
\* none without both, a panic of the slice when ')' stands before '('
comm_of(stat) ==
    LET l == find(stat, 40)
        r == rfind(stat, 41)
    IN  IF l = 0 \/ r = 0 THEN [some |-> FALSE, panic |-> FALSE, val |-> << >>]
        ELSE IF l > r THEN [some |-> TRUE, panic |-> TRUE, val |-> << >>]
        ELSE [some |-> TRUE, panic |-> FALSE, val |-> SubSeq(stat, l + 1, r - 1)]

\* the display name of a process: the command line with NUL turned into
\* space and trimmed when cmdline can be read and is not empty; the text
\* between the parentheses of stat when cmdline is empty; the id otherwise
name_of(pid, stat, cmdline) ==
    IF cmdline.some
    THEN IF cmdline.val = << >>
         THEN LET c == comm_of(stat)
              IN  IF c.some
                  THEN IF c.panic THEN SlicePanic ELSE Sliced(c.val)
                  ELSE Sliced(to_string(pid))
         ELSE Sliced(trim(replace_nul(cmdline.val)))
    ELSE Sliced(to_string(pid))

\* s.chars().all(char::is_numeric)
all_numeric(s) == \A i \in 1..Len(s) : is_numeric(s[i])

ProcNode(pid, ppid, name, is_thread) ==
    [pid |-> pid, ppid |-> ppid, name |-> name, is_thread |-> is_thread]

\* HashMap::insert: the node of an id already there is replaced
insert(procs, pid, node) ==
    [p \in DOMAIN procs \cup {pid} |-> IF p = pid THEN node ELSE procs[p]]

\* children_map.entry(parent).or_default().push(child)
push_child(cm, parent, child) ==
    [p \in DOMAIN cm \cup {parent} |->
        IF p = parent
        THEN (IF parent \in DOMAIN cm THEN cm[parent] ELSE << >>) \o << child >>
        ELSE cm[p]]

\* the maps before the scan
NoMaps == [procs |-> << >>, cm |-> << >>, panic |-> FALSE]

\* the loop over the entries of P/task: a thread is a numeric name other
\* than the id of its process whose stat can be read and has parentheses
RECURSIVE scan_tasks(_, _, _)
scan_tasks(st, pid, tasks) ==
    IF tasks = << >> \/ st.panic THEN st
    ELSE LET t    == Head(tasks)
             tid  == parse_or_0(t.name)
             comm == IF t.stat.some THEN comm_of(t.stat.val)
                     ELSE [some |-> FALSE, panic |-> FALSE, val |-> << >>]
             st1  == IF ~all_numeric(t.name) \/ tid = pid \/ ~comm.some THEN st
                     ELSE IF comm.panic THEN [st EXCEPT !.panic = TRUE]
                     ELSE [st EXCEPT
                             !.procs = insert(@, tid,
                                 ProcNode(tid, pid, << 123 >> \o comm.val \o << 125 >>, TRUE)),
                             !.cm = push_child(@, pid, tid)]
         IN  scan_tasks(st1, pid, Tail(tasks))

\* one iteration of the loop over the entries of the proc directory
scan_entry(st, e) ==
    IF ~all_numeric(e.name) \/ ~e.stat.some THEN st
    ELSE LET pid  == parse_or_0(e.name)
             ppid == ppid_of(e.stat.val)
             name == name_of(pid, e.stat.val, e.cmdline)
         IN  IF ppid.panic \/ name.panic THEN [st EXCEPT !.panic = TRUE]
             ELSE LET st1 == [st EXCEPT
                                !.procs = insert(@, pid,
                                    ProcNode(pid, ppid.val, name.val, FALSE)),
                                !.cm = push_child(@, ppid.val, pid)]
                  IN  IF e.task.some THEN scan_tasks(st1, pid, e.task.val) ELSE st1

\* the loop over the entries of the proc directory
RECURSIVE scan(_, _)
scan(st, table) ==
    IF table = << >> \/ st.panic THEN st
    ELSE scan(scan_entry(st, Head(table)), Tail(table))

\* the children left in the order the scan met them
sort_by_key_left_out(q) == q

\* sorted_children.sort_by_key(|&p| p)
RECURSIVE sort_by_key(_)
sort_by_key(q) ==
    IF q = << >> THEN << >>
    ELSE LET m == CHOOSE i \in 1..Len(q) :
                      /\ \A j \in 1..Len(q) : q[i] <= q[j]
                      /\ \A j \in 1..(i - 1) : q[j] # q[i]
         IN  << q[m] >> \o
             sort_by_key(SubSeq(q, 1, m - 1) \o SubSeq(q, m + 1, Len(q)))

\* the connectors and the prefixes of the drawing
Corner == << 9492, 9472 >>

Tee == << 9500, 9472 >>

Blank == << 32, 32 >>

Bar == << 9474, 32 >>

RECURSIVE build_tree_recursive(_, _, _, _, _)

\* the loop over the children with a visited set that holds the nodes of the
\* path to the root only: a child is taken out again after its subtree
RECURSIVE for_children_on_path(_, _, _, _, _, _)
for_children_on_path(sorted, i, procs, cm, acc, prefix) ==
    IF i > Len(sorted) THEN acc
    ELSE LET child == sorted[i]
         IN  IF child \in acc.seen
             THEN for_children_on_path(sorted, i + 1, procs, cm, acc, prefix)
             ELSE LET is_last == i = Len(sorted)
                      line    == prefix \o (IF is_last THEN Corner ELSE Tee)
                                     \o procs[child].name \o << 10 >>
                      acc1    == [out  |-> acc.out \o line,
                                  ids  |-> Append(acc.ids, child),
                                  seen |-> acc.seen \cup {child}]
                      acc2    == build_tree_recursive(child, procs, cm, acc1,
                                     prefix \o (IF is_last THEN Blank ELSE Bar))
                  IN  for_children_on_path(sorted, i + 1, procs, cm,
                          [acc2 EXCEPT !.seen = acc.seen], prefix)

\* the loop of build_tree_recursive over the sorted children, from the i-th:
\* a child already seen is passed over; the others are marked seen and, when
\* they have a node, written with the corner connector if they stand last in
\* the sorted list and the tee connector otherwise, followed by their subtree
RECURSIVE for_children(_, _, _, _, _, _)
for_children(sorted, i, procs, cm, acc, prefix) ==
    IF i > Len(sorted) THEN acc
    ELSE LET child == sorted[i]
         IN  IF child \in acc.seen
             THEN for_children(sorted, i + 1, procs, cm, acc, prefix)
             ELSE LET marked == [acc EXCEPT !.seen = @ \cup {child}]
                  IN  IF child \in DOMAIN procs
                      THEN LET is_last == i = Len(sorted)
                               line    == prefix \o (IF is_last THEN Corner ELSE Tee)
                                              \o procs[child].name \o << 10 >>
                               acc1    == [marked EXCEPT
                                             !.out = @ \o line,
                                             !.ids = Append(@, child)]
                               acc2    == build_tree_recursive(child, procs, cm, acc1,
                                              prefix \o (IF is_last THEN Blank ELSE Bar))
                           IN  for_children(sorted, i + 1, procs, cm, acc2, prefix)
                      ELSE for_children(sorted, i + 1, procs, cm, marked, prefix)

\* build_tree_recursive: out, the ids written (in the order of their lines)
\* and the set seen, after the subtree of pid was written
build_tree_recursive(pid, procs, cm, acc, prefix) ==
    IF pid \in DOMAIN cm
    THEN for_children(sort_by_key(cm[pid]), 1, procs, cm, acc, prefix)
    ELSE acc

\* get_pstree answering a root that is not in the table with an error
get_pstree_root_required(root, readable, table) ==
    IF ~readable THEN [kind |-> "Err", text |-> << >>, ids |-> << >>]
    ELSE LET st == scan(NoMaps, table)
         IN  IF st.panic THEN [kind |-> "Panic", text |-> << >>, ids |-> << >>]
             ELSE IF root \in DOMAIN st.procs
             THEN LET acc == build_tree_recursive(root, st.procs, st.cm,
                                 [out  |-> st.procs[root].name \o << 10 >>,
                                  ids  |-> << root >>,
                                  seen |-> {root}], << >>)
                  IN  [kind |-> "Ok", text |-> trim_end(acc.out), ids |-> acc.ids]
             ELSE [kind |-> "Err", text |-> << >>, ids |-> << >>]

TreeErr == [kind |-> "Err", text |-> << >>, ids |-> << >>]

TreePanic == [kind |-> "Panic", text |-> << >>, ids |-> << >>]

\* get_pstree(root_pid, proc_path): the text returned and, next to it, the
\* ids whose lines were written
get_pstree(root, readable, table) ==
    IF ~readable THEN TreeErr
    ELSE LET st == scan(NoMaps, table)
         IN  IF st.panic THEN TreePanic
             ELSE IF root \in DOMAIN st.procs
             THEN LET acc == build_tree_recursive(root, st.procs, st.cm,
                                 [out  |-> st.procs[root].name \o << 10 >>,
                                  ids  |-> << root >>,
                                  seen |-> {root}], << >>)
                  IN  [kind |-> "Ok", text |-> trim_end(acc.out), ids |-> acc.ids]
             ELSE [kind |-> "Ok", text |-> << >>, ids |-> << >>]

-----------------------------------------------------------------------------
(* Process tables *)

\* a stat record as the kernel writes it: "pid (comm) S ppid 0\n"
StatLine(pid, comm, ppid) ==
    to_string(pid) \o << 32, 40 >> \o comm \o << 41, 32, 83, 32 >>
        \o to_string(ppid) \o << 32, 48, 10 >>

\* an entry of the proc directory: its name, what reading its stat and its
\* cmdline gives (None when the read fails) and the entries of its task
\* directory (None when it cannot be read)
ProcEntry(name, stat, cmdline, task) ==
    [name |-> name, stat |-> stat, cmdline |-> cmdline, task |-> task]

\* an entry of a task directory
TaskEntry(name, stat) == [name |-> name, stat |-> stat]

\* the process ids of the tables, the ids the parents of the plain processes
\* are drawn from, and those of the processes with tasks
Pids == {10, 20, 30}

Parents == {1, 10, 20, 30}

TaskParents == {1, 10}

\* the id behind p in the cycle 10, 20, 30
NextPid(p) == IF p = 30 THEN 10 ELSE p + 10

\* a process with the command line "a\0b\0" whose task directory cannot be
\* read
PlainProc(p, q) ==
    ProcEntry(to_string(p), Some(StatLine(p, << 115, 104 >>, q)),
              Some(<< 97, 0, 98, 0 >>), None)

\* a process with an empty command line (a kernel thread, a zombie) and the
\* tasks p (itself) and p + 1
ThreadedProc(p, q) ==
    ProcEntry(to_string(p), Some(StatLine(p, << 115, 104 >>, q)), Some(<< >>),
              Some(<< TaskEntry(to_string(p), Some(StatLine(p, << 115, 104 >>, q))),
                      TaskEntry(to_string(p + 1),
                                Some(StatLine(p + 1, << 116 >>, q))) >>))

\* a process whose command line cannot be read and whose task directory
\* holds, the table changing under the scan, the id of another process and
\* a task that has gone
RacedProc(p, q) ==
    ProcEntry(to_string(p), Some(StatLine(p, << 115, 104 >>, q)), None,
              Some(<< TaskEntry(to_string(NextPid(p)),
                                Some(StatLine(NextPid(p), << 119 >>, q))),
                      TaskEntry(to_string(p + 2), None) >>))

\* entries that are no process, or a process that is going: a stat that
\* cannot be read, a stat without parentheses, a name that is no number, a
\* numeric name that is no decimal number
OddEntries ==
    { ProcEntry(to_string(10), None, Some(<< 97 >>), None),
      ProcEntry(to_string(20), Some(<< 50, 48, 32, 120, 32, 51, 48 >>), Some(<< >>), None),
      ProcEntry(<< 115, 101, 108, 102 >>, Some(StatLine(30, << 115, 104 >>, 10)),
                Some(<< 97 >>), None),
      ProcEntry(<< 1635 >>, Some(StatLine(3, << 115, 104 >>, 10)), Some(<< >>), None) }

ProcEntries ==
    { PlainProc(p, q) : p \in Pids, q \in Parents } \cup
    { ThreadedProc(p, q) : p \in Pids, q \in TaskParents } \cup
    { RacedProc(p, q) : p \in Pids, q \in TaskParents } \cup
    OddEntries

\* the listings of a proc directory of n entries: no name twice
RECURSIVE ProcTables(_)
ProcTables(n) ==
    IF n = 0 THEN { << >> }
    ELSE LET shorter == ProcTables(n - 1)
             fresh(q) == { e \in ProcEntries :
                             \A i \in 1..Len(q) : q[i].name # e.name }
         IN  shorter \cup
             UNION { { Append(q, e) : e \in fresh(q) } :
                       q \in { r \in shorter : Len(r) = n - 1 } }

\* the roots asked for: processes, threads, the id 0, and ids of no table
RootPids == {0, 10, 11, 20, 40}

TreeIdle ==
    /\ procTable = << >>
    /\ procReadable = FALSE
    /\ rootPid = 0
    /\ treeResult = TreeErr

\* one call of get_pstree
GetPstree ==
    /\ treeResult.kind = "NotRun"
    /\ treeResult' = get_pstree(rootPid, procReadable, procTable)
    /\ UNCHANGED <<procTable, procReadable, rootPid>>
    /\ UNCHANGED outsideTree

-----------------------------------------------------------------------------
(* The log file and its text *)

\* The log file is kept as the sequence of its lines.  A line has len bytes,
\* the last of them its line feed, of which the first `written' are in the
\* file (only the last line of a file may be unfinished); hit says where the
\* line holds the filter string: "none", at its "start", or at its "end"
\* directly before the line feed.  A piece of text is a sequence of segments,
\* a segment being the bytes from..to of one line.
LogLine(id, len, hit, written) ==
    [id |-> id, len |-> len, hit |-> hit, written |-> written]

Seg(l, from, to) ==
    [id |-> l.id, len |-> l.len, hit |-> l.hit, from |-> from, to |-> to]

\* the segment ends with the line feed of its line
ends_line(seg) == seg.to = seg.len - 1

Min(a, b) == IF a < b THEN a ELSE b

Max(a, b) == IF a > b THEN a ELSE b

\* metadata().len(): the bytes written of all lines
RECURSIVE file_len(_)
file_len(f) ==
    IF f = << >> THEN 0
    ELSE IF Len(f) = 1 THEN f[1].written
    ELSE LET h == Len(f) \div 2
         IN  file_len(SubSeq(f, 1, h)) + file_len(SubSeq(f, h + 1, Len(f)))

\* the bytes a..b-1 of the file: of every line that has bytes among them,
\* the segment of those bytes
read_range(f, a, b) ==
    LET off(i) == file_len(SubSeq(f, 1, i - 1))
        cut    == [i \in 1..Len(f) |->
                      Seg(f[i], Max(a - off(i), 0), Min(b - off(i), f[i].written) - 1)]
    IN  SelectSeq(cut, LAMBDA s : s.from <= s.to)

\* String::push_str: the bytes of a line that follow those at the end of the
\* text make one segment with them
push_str(text, chunk) ==
    IF text # << >> /\ chunk # << >>
         /\ text[Len(text)].id = Head(chunk).id
         /\ text[Len(text)].to + 1 = Head(chunk).from
    THEN SubSeq(text, 1, Len(text) - 1)
             \o << [text[Len(text)] EXCEPT !.to = Head(chunk).to] >>
             \o Tail(chunk)
    ELSE text \o chunk

\* str::contains(filter_str) on a piece of text: the empty filter is in every
\* text, another one where a segment holds all its bytes
text_contains(text, flt) ==
    \/ flt = << >>
    \/ \E i \in 1..Len(text) :
         LET s == text[i]
         IN  \/ s.hit = "start" /\ s.from = 0 /\ s.to >= Len(flt) - 1
             \/ s.hit = "end" /\ s.from <= s.len - 1 - Len(flt) /\ s.to >= s.len - 2

\* the position of the first line feed of a text, 0 when it has none
first_newline(text) ==
    IF \E i \in 1..Len(text) : ends_line(text[i])
    THEN CHOOSE i \in 1..Len(text) :
             ends_line(text[i]) /\ \A j \in 1..(i - 1) : ~ends_line(text[j])
    ELSE 0

\* str::lines: the text cut behind every line feed, and what is left behind
\* the last one as a line of its own
lines(text) ==
    LET ends     == { i \in 1..Len(text) : ends_line(text[i]) \/ i = Len(text) }
        before(i) == { j \in ends : j < i }
        first(i) == IF before(i) = { } THEN 1
                    ELSE 1 + CHOOSE j \in before(i) : \A k \in before(i) : k <= j
        cut      == [i \in 1..Len(text) |->
                        IF i \in ends THEN SubSeq(text, first(i), i) ELSE << >>]
    IN  SelectSeq(cut, LAMBDA t : t # << >>)

\* what println! writes: a line of text, or the notice of a truncation
PrintedLine(text, phase) == [kind |-> "line", text |-> text, phase |-> phase]

Notice == [kind |-> "notice", text |-> << >>, phase |-> "follow"]

-----------------------------------------------------------------------------
(* utils::get_tail_content, follow_file_filtered *)

\* std::cmp::max(8192, ...)
MinReadSize == 8192

\* (n_lines as u64) * 200
BytesPerLine == 200

\* let mut buffer = [0; 1024]
BufferSize == 1024

\* get_tail_content: where the initial read starts
start_pos(flen, n, all) ==
    LET initial_read_size == Max(MinReadSize, n * BytesPerLine)
    IN  IF all THEN 0
        ELSE IF flen > initial_read_size THEN flen - initial_read_size
        ELSE 0

\* the initial phase of follow_file_filtered: the lines of the content read
\* that contain the filter, the last n of them unless read_all
tail_lines(f, flt, n, all) ==
    LET content    == read_range(f, start_pos(file_len(f), n, all), file_len(f))
        matching   == SelectSeq(lines(content), LAMBDA t : text_contains(t, flt))
        start_line == IF ~all /\ Len(matching) > n THEN Len(matching) - n ELSE 0
        shown      == SubSeq(matching, start_line + 1, Len(matching))
    IN  [i \in 1..Len(shown) |-> PrintedLine(shown[i], "tail")]

\* the while loop over partial_line: every line up to a line feed is drained
\* and, if it contains the filter, printed; what is left, and what was printed
RECURSIVE drain_lines(_, _, _)
drain_lines(text, flt, out) ==
    LET i == first_newline(text)
    IN  IF i = 0 THEN [partial |-> text, out |-> out]
        ELSE LET line == SubSeq(text, 1, i)
             IN  drain_lines(SubSeq(text, i + 1, Len(text)), flt,
                             IF text_contains(line, flt)
                             THEN Append(out, PrintedLine(line, "follow"))
                             ELSE out)

\* the answers of the operating system to a step of the follower
FollowFaults == {"none", "fail"}

FollowIdle ==
    /\ logFile = << >>
    /\ nextId = 1
    /\ filterStr = << >>
    /\ nLines = 0
    /\ readAll = FALSE
    /\ fpc = "done"
    /\ fpos = 0
    /\ pos = 0
    /\ partial = << >>
    /\ printed = << >>
    /\ followResult = "Err"
    /\ writes = 0
    /\ tailFile = << >>
    /\ idle = FALSE
    /\ shrunkAt = -1

\* what no step of the follower changes
followInputs == <<logFile, nextId, filterStr, nLines, readAll, writes, shrunkAt>>

\* a step of the follower ends with an error of the operating system
Fail ==
    /\ fpc' = "done"
    /\ followResult' = "Err"
    /\ idle' = FALSE
    /\ UNCHANGED <<fpos, pos, partial, printed, tailFile>>

\* get_tail_content and the printing of the initial lines: the file is
\* opened and read from start_pos to its end
TailRead ==
    /\ fpc = "open"
    /\ \E io \in FollowFaults :
        IF io = "fail" THEN Fail
        ELSE /\ printed' = printed \o tail_lines(logFile, filterStr, nLines, readAll)
             /\ fpos' = file_len(logFile)
             /\ tailFile' = logFile
             /\ fpc' = "seek"
             /\ UNCHANGED <<pos, partial, followResult, idle>>
    /\ UNCHANGED followInputs
    /\ UNCHANGED outsideFollow

\* let mut pos = file.seek(SeekFrom::End(0))?
SeekEnd ==
    /\ fpc = "seek"
    /\ \E io \in FollowFaults :
        IF io = "fail" THEN Fail
        ELSE /\ pos' = file_len(logFile)
             /\ fpos' = file_len(logFile)
             /\ fpc' = "loop"
             /\ UNCHANGED <<partial, printed, followResult, tailFile, idle>>
    /\ UNCHANGED followInputs
    /\ UNCHANGED outsideFollow

\* one iteration of the loop that ends as soon as a read finds nothing
FollowStep_until_eof ==
    /\ fpc = "loop"
    /\ \E io \in FollowFaults :
        IF io = "fail" THEN Fail
        ELSE LET read_bytes == Min(BufferSize, Max(0, file_len(logFile) - fpos))
             IN  IF read_bytes > 0
                 THEN LET chunk == read_range(logFile, fpos, fpos + read_bytes)
                          d     == drain_lines(push_str(partial, chunk), filterStr, << >>)
                      IN  /\ partial' = d.partial
                          /\ printed' = printed \o d.out
                          /\ pos' = pos + read_bytes
                          /\ fpos' = fpos + read_bytes
                          /\ idle' = FALSE
                          /\ UNCHANGED <<fpc, followResult, tailFile>>
                 ELSE /\ fpc' = "done"
                      /\ followResult' = "Ok"
                      /\ idle' = FALSE
                      /\ UNCHANGED <<fpos, pos, partial, printed, tailFile>>
    /\ UNCHANGED followInputs
    /\ UNCHANGED outsideFollow

\* one iteration of the loop with pos set to the length of the file after a
\* read instead of going on by the bytes read
FollowStep_pos_at_end ==
    /\ fpc = "loop"
    /\ \E io \in FollowFaults \cup {"meta"} :
        IF io = "fail" THEN Fail
        ELSE LET read_bytes == Min(BufferSize, Max(0, file_len(logFile) - fpos))
             IN  IF read_bytes > 0
                 THEN LET chunk == read_range(logFile, fpos, fpos + read_bytes)
                          d     == drain_lines(push_str(partial, chunk), filterStr, << >>)
                      IN  /\ partial' = d.partial
                          /\ printed' = printed \o d.out
                          /\ pos' = file_len(logFile)
                          /\ fpos' = fpos + read_bytes
                          /\ idle' = FALSE
                          /\ UNCHANGED <<fpc, followResult, tailFile>>
                 ELSE IF io = "none" /\ file_len(logFile) < pos
                 THEN /\ pos' = 0
                      /\ fpos' = 0
                      /\ partial' = << >>
                      /\ printed' = Append(printed, Notice)
                      /\ idle' = FALSE
                      /\ UNCHANGED <<fpc, followResult, tailFile>>
                 ELSE /\ idle' = (io = "none")
                      /\ UNCHANGED <<fpc, fpos, pos, partial, printed,
                                     followResult, tailFile>>
    /\ UNCHANGED followInputs
    /\ UNCHANGED outsideFollow

\* one iteration of the loop: a read of up to 1024 bytes; what was read is
\* appended to partial_line, its complete lines are printed and pos goes on
\* by the bytes read.  When nothing was read and the file is shorter than
\* pos, the file is opened again and read from 0, partial_line is emptied
\* and the notice printed; then, or when the length cannot be had (meta),
\* the loop sleeps and goes round.
FollowStep ==
    /\ fpc = "loop"
    /\ \E io \in FollowFaults \cup {"meta"} :
        IF io = "fail" THEN Fail
        ELSE LET read_bytes == Min(BufferSize, Max(0, file_len(logFile) - fpos))
             IN  IF read_bytes > 0
                 THEN LET chunk == read_range(logFile, fpos, fpos + read_bytes)
                          d     == drain_lines(push_str(partial, chunk), filterStr, << >>)
                      IN  /\ partial' = d.partial
                          /\ printed' = printed \o d.out
                          /\ pos' = pos + read_bytes
                          /\ fpos' = fpos + read_bytes
                          /\ idle' = FALSE
                          /\ UNCHANGED <<fpc, followResult, tailFile>>
                 ELSE IF io = "none" /\ file_len(logFile) < pos
                 THEN /\ pos' = 0
                      /\ fpos' = 0
                      /\ partial' = << >>
                      /\ printed' = Append(printed, Notice)
                      /\ idle' = FALSE
                      /\ UNCHANGED <<fpc, followResult, tailFile>>
                 ELSE /\ idle' = (io = "none")
                      /\ UNCHANGED <<fpc, fpos, pos, partial, printed,
                                     followResult, tailFile>>
    /\ UNCHANGED followInputs
    /\ UNCHANGED outsideFollow

\* the process is interrupted from outside
Interrupt ==
    /\ fpc \in {"seek", "loop"}
    /\ fpc' = "done"
    /\ followResult' = "Interrupted"
    /\ idle' = FALSE
    /\ UNCHANGED <<fpos, pos, partial, printed, tailFile>>
    /\ UNCHANGED followInputs
    /\ UNCHANGED outsideFollow

-----------------------------------------------------------------------------
(* The writer of the log file *)

\* the lengths of the lines the writer appends, line feed included
AppendLens == {100, 1500}

\* where a line may hold the filter
Hits == IF filterStr = << >> THEN {"none"} ELSE {"none", "end"}

\* what no step of the writer changes
followerState ==
    <<filterStr, nLines, readAll, fpc, fpos, pos, partial, printed,
      followResult, tailFile>>

\* the writer appends a line, or the first half of one
WriterAppend ==
    /\ fpc \in {"seek", "loop"}
    /\ writes < MaxWrites
    /\ IF logFile = << >> THEN TRUE
       ELSE logFile[Len(logFile)].written = logFile[Len(logFile)].len
    /\ \E n \in AppendLens, h \in Hits, part \in {1, 2} :
         logFile' = Append(logFile, LogLine(nextId, n, h, n \div part))
    /\ nextId' = nextId + 1
    /\ writes' = writes + 1
    /\ idle' = FALSE
    /\ UNCHANGED shrunkAt
    /\ UNCHANGED followerState
    /\ UNCHANGED outsideFollow

\* the writer appends the rest of the unfinished last line
WriterFinish ==
    /\ fpc \in {"seek", "loop"}
    /\ writes < MaxWrites
    /\ IF logFile = << >> THEN FALSE
       ELSE logFile[Len(logFile)].written < logFile[Len(logFile)].len
    /\ logFile' = [logFile EXCEPT
                     ![Len(logFile)].written = logFile[Len(logFile)].len]
    /\ writes' = writes + 1
    /\ idle' = FALSE
    /\ UNCHANGED <<nextId, shrunkAt>>
    /\ UNCHANGED followerState
    /\ UNCHANGED outsideFollow

\* the file is truncated to length 0 (the log is rotated in place)
WriterTruncate ==
    /\ fpc \in {"seek", "loop"}
    /\ writes < MaxWrites
    /\ logFile # << >>
    /\ logFile' = << >>
    /\ writes' = writes + 1
    /\ idle' = FALSE
    /\ shrunkAt' = IF fpc = "loop" /\ pos > 0 THEN Len(printed) ELSE shrunkAt
    /\ UNCHANGED nextId
    /\ UNCHANGED followerState
    /\ UNCHANGED outsideFollow

\* a file of count lines of len bytes each, those of hits holding the filter
UniformFile(count, n, hits) ==
    [i \in 1..count |-> LogLine(i, n, IF i \in hits THEN "end" ELSE "none", n)]

\* the files a follow session with a writer is started on: no line, three
\* lines, two lines and an unfinished one
StartFiles ==
    { << >>,
      UniformFile(3, 100, {2}),
      UniformFile(2, 100, {1}) \o << LogLine(3, 100, "none", 40) >> }

\* the files the initial phase is run on: those, and 100 lines of 50 bytes,
\* 50 lines of 200 bytes, 10 and 12 lines of 1000 bytes
StaticFiles ==
    StartFiles \cup
    { UniformFile(100, 50, {50, 100}),
      UniformFile(50, 200, {1, 50}),
      UniformFile(10, 1000, {3}),
      UniformFile(12, 1000, {1, 12}) }

\* "ERROR"
FilterSamples == { << >>, << 69, 82, 82, 79, 82 >> }

\* the line counts asked for
LineCounts == {0, 2, 10}

-----------------------------------------------------------------------------
(* get_tail_content: the offset of the initial read, at the width of u64 *)

\* a number below 2^32 as a u64
u64(v) == << 0, 0, v \div Limb, v % Limb >>

\* a * k with the limb that does not fit in front: the exact product
RECURSIVE MulWide(_, _, _)
MulWide(a, k, carry) ==
    IF a = << >> THEN << carry >>
    ELSE LET n == Len(a)
             v == a[n] * k + carry
         IN  MulWide(SubSeq(a, 1, n - 1), k, v \div Limb) \o << v % Limb >>

\* std::cmp::max on u64
max_u64(a, b) == IF GeLimbs(a, b) THEN a ELSE b

StartPanic == [kind |-> "Panic", val |-> u64(0)]

\* the start_pos of get_tail_content for a file of flen bytes.
\* (n_lines as u64) * 200 is a plain `*`: when the product does not fit in
\* 64 bits a build with overflow checks panics and a build without them
\* goes on with the product modulo 2^64.  The subtraction of
\* initial_read_size is guarded by file_len > initial_read_size.
get_tail_start(flen, n_lines, read_all, overflow_checks) ==
    LET wide              == MulWide(n_lines, BytesPerLine, 0)
        estimated_bytes   == Tail(wide)
        initial_read_size == max_u64(u64(MinReadSize), estimated_bytes)
    IN  IF Head(wide) # 0 /\ overflow_checks THEN StartPanic
        ELSE [kind |-> "Ok",
              val  |-> IF read_all THEN u64(0)
                       ELSE IF ~GeLimbs(initial_read_size, flen)
                       THEN SubLimbs(flen, initial_read_size, 0)
                       ELSE u64(0)]

\* file lengths: empty, around the 8192 bytes always read, around the
\* estimate for 100 lines, 2^32, 2^63 and 2^64 - 1
FileLengths ==
    { u64(0), u64(1), u64(8191), u64(8192), u64(8193), u64(20000), u64(20001),
      << 0, 1, 0, 0 >>, << 32768, 0, 0, 0 >>, << 65535, 65535, 65535, 65535 >> }

\* line counts: none, the default 10, 40 and 41 (where the estimate passes
\* 8192), 100, 2^32, the greatest whose estimate fits in 64 bits
\* (92233720368547758), the next one, 2^63 and 2^64 - 1
LineCounts64 ==
    { u64(0), u64(10), u64(40), u64(41), u64(100), << 0, 1, 0, 0 >>,
      << 327, 44564, 31457, 18350 >>, << 327, 44564, 31457, 18351 >>,
      << 32768, 0, 0, 0 >>, << 65535, 65535, 65535, 65535 >> }

StartIdle ==
    /\ startFileLen = u64(0)
    /\ startLines = u64(0)
    /\ startAll = FALSE
    /\ startResult = StartPanic

\* one computation of start_pos, by a build with or without overflow checks
GetTailStart ==
    /\ startResult.kind = "NotRun"
    /\ \E overflow_checks \in BOOLEAN :
         startResult' = get_tail_start(startFileLen, startLines, startAll,
                                       overflow_checks)
    /\ UNCHANGED <<startFileLen, startLines, startAll>>
    /\ UNCHANGED outsideStart

-----------------------------------------------------------------------------
(* follow_file_filtered: the loop, on the bytes and characters of the file *)

\* String::from_utf8_lossy on bytes that are ASCII or belong to characters
\* of two bytes: a byte below 128 is its character, a lead byte 0xC2..0xDF
\* followed by a continuation byte 0x80..0xBF is the character of the two,
\* and every other byte (a lead byte at the end or before a byte that does
\* not continue it, a continuation byte on its own) becomes U+FFFD
RECURSIVE from_utf8_lossy(_)
from_utf8_lossy(b) ==
    IF b = << >> THEN << >>
    ELSE IF b[1] < 128 THEN << b[1] >> \o from_utf8_lossy(Tail(b))
    ELSE IF b[1] \in 194..223 /\ Len(b) >= 2 /\ b[2] \in 128..191
    THEN << (b[1] - 192) * 64 + (b[2] - 128) >> \o from_utf8_lossy(Tail(Tail(b)))
    ELSE << 65533 >> \o from_utf8_lossy(Tail(b))

\* the while loop over partial_line on characters: every line up to a line
\* feed is drained, trimmed at its end and, if it then contains the filter,
\* printed; what is left, and what was printed
RECURSIVE drain_chars(_, _, _)
drain_chars(text, flt, out) ==
    LET i == find(text, 10)
    IN  IF i = 0 THEN [partial |-> text, out |-> out]
        ELSE LET trimmed == trim_end(SubSeq(text, 1, i))
             IN  drain_chars(SubSeq(text, i + 1, Len(text)), flt,
                             IF contains(trimmed, flt) THEN Append(out, trimmed)
                             ELSE out)

\* "\n*** Log truncated ***\n"
NoticeText ==
    << 10, 42, 42, 42, 32, 76, 111, 103, 32, 116, 114, 117, 110, 99, 97, 116,
       101, 100, 32, 42, 42, 42, 10 >>

BytesIdle ==
    /\ byteFile = << >>
    /\ byteFilter = << >>
    /\ bytePos = 0
    /\ bytePartial = << >>
    /\ bytePrinted = << >>
    /\ byteResult = "Err"
    /\ byteWrites = 0

\* one iteration of the loop on the bytes of the file: a read of up to 1024
\* bytes from pos; the bytes read are converted on their own, appended to
\* partial_line and drained, and pos goes on by their number.  When nothing
\* was read and the file is shorter than pos the loop starts again from 0.
FollowBytesStep ==
    /\ byteResult = "Running"
    /\ \E io \in FollowFaults :
        IF io = "fail"
        THEN /\ byteResult' = "Err"
             /\ UNCHANGED <<bytePos, bytePartial, bytePrinted>>
        ELSE LET read_bytes == Min(BufferSize, Max(0, Len(byteFile) - bytePos))
             IN  IF read_bytes > 0
                 THEN LET chunk == from_utf8_lossy(
                                       SubSeq(byteFile, bytePos + 1, bytePos + read_bytes))
                          d     == drain_chars(bytePartial \o chunk, byteFilter, << >>)
                      IN  /\ bytePartial' = d.partial
                          /\ bytePrinted' = bytePrinted \o d.out
                          /\ bytePos' = bytePos + read_bytes
                          /\ UNCHANGED byteResult
                 ELSE IF Len(byteFile) < bytePos
                 THEN /\ bytePos' = 0
                      /\ bytePartial' = << >>
                      /\ bytePrinted' = Append(bytePrinted, NoticeText)
                      /\ UNCHANGED byteResult
                 ELSE UNCHANGED <<bytePos, bytePartial, bytePrinted, byteResult>>
    /\ UNCHANGED <<byteFile, byteFilter, byteWrites>>
    /\ UNCHANGED outsideBytes

\* what the writer appends in one write: a, a space, a line feed and the two
\* bytes of e-acute (195, 169), alone and in short runs
WriteChunks ==
    { << 97 >>, << 10 >>, << 195 >>, << 169 >>, << 32, 10 >>, << 97, 10 >>,
      << 195, 169 >>, << 169, 10 >>, << 97, 10, 97 >>, << 195, 169, 10 >> }

\* the filters: none, "a", e-acute
ByteFilters == { << >>, << 97 >>, << 233 >> }

\* the writer appends bytes to the file
WriteBytes ==
    /\ byteResult = "Running"
    /\ byteWrites < MaxWrites
    /\ \E c \in WriteChunks : byteFile' = byteFile \o c
    /\ byteWrites' = byteWrites + 1
    /\ UNCHANGED <<byteFilter, bytePos, bytePartial, bytePrinted, byteResult>>
    /\ UNCHANGED outsideBytes

-----------------------------------------------------------------------------
(* Service::from_runit_service *)

\* a service directory: its down marker, its supervise/status and, when it
\* has one, the directory of its log service
ServiceFiles(down, status, logdir) ==
    [exists |-> TRUE, down |-> down, status |-> status, log |-> logdir]

DescPanic == [kind |-> "Panic"]

NotBuilt == [kind |-> "NotBuilt"]

\* what the helpers that are called with the pid of the service return:
\* utils::cmd_from_pid and the pstree program, each with success or an error
DescIo == [cmd : {"ok", "fail"}, pstree : {"ok", "fail"}]

\* Service::from_runit_service: the descriptor and the messages, or the
\* panic of one of the two calls of get_status.  A status that cannot be
\* decoded gives state Unknown, no pid, an error for the start time, want
\* 'u' and not paused; the log service is looked at when service/log
\* exists, and its status is left out when it cannot be decoded; command
\* and pstree are asked for only when there is a pid.
from_runit_service(name, service, want_pstree, want_log_status, io) ==
    LET status_result == get_status(service.status)
        pid           == IF status_result.kind = "Ok" THEN status_result.pid ELSE None
        log_result    == IF service.log.some THEN get_status(service.log.val.status)
                         ELSE StatusErr("NotFound")
        log_status    == IF service.log.some /\ log_result.kind = "Ok"
                         THEN Some(<< log_result, enabled(service.log.val) >>)
                         ELSE None
    IN  IF status_result.kind = "Panic" THEN DescPanic
        ELSE IF service.log.some /\ log_result.kind = "Panic" THEN DescPanic
        ELSE [kind       |-> "Ok",
              name       |-> name,
              state      |-> IF status_result.kind = "Ok" THEN status_result.state
                             ELSE "Unknown",
              enabled    |-> enabled(service),
              command    |-> IF pid.some /\ io.cmd = "ok" THEN Some("command") ELSE None,
              pid        |-> pid,
              start_time |-> IF status_result.kind = "Ok"
                             THEN (IF status_result.start_time.some
                                   THEN [ok |-> TRUE, val |-> status_result.start_time.val]
                                   ELSE [ok |-> FALSE, val |-> "invalid timestamp"])
                             ELSE [ok |-> FALSE, val |-> status_result.err],
              pstree     |-> IF want_pstree /\ pid.some THEN Some(io.pstree) ELSE None,
              want       |-> IF status_result.kind = "Ok" THEN status_result.want ELSE 117,
              paused     |-> IF status_result.kind = "Ok" THEN status_result.paused
                             ELSE FALSE,
              log_status |-> log_status,
              print_log_column |-> want_log_status,
              messages   |-> IF pid.some /\ io.cmd = "fail"
                             THEN << "failed to get command for pid" >> ELSE << >>]

\* status files: one that cannot be opened (missing or unreadable), one of
\* 19 bytes, the record of a stopped service, the record of a running one
\* with pid 1234, and a record whose TAI64 stamp is 2^64 - 1
CannotOpen == [exists |-> FALSE, data |-> << >>]

TooShort == [exists |-> TRUE, data |-> Zeros(19)]

StatusRecordOf(tai, pid, state) ==
    [exists |-> TRUE,
     data   |-> Bytes8(tai) \o Zeros(4) \o pid \o << 0, 117, 0, state >>]

DescStatusFiles ==
    { CannotOpen, TooShort,
      StatusRecordOf(<< 0, 0, 0, 0 >>, << 0, 0, 0, 0 >>, 0),
      StatusRecordOf(<< 16384, 0, 26000, 4660 >>, << 210, 4, 0, 0 >>, 1),
      StatusRecordOf(<< 65535, 65535, 65535, 65535 >>, << 210, 4, 0, 0 >>, 1) }

DownMarkers == { Absent, RegularFile(0) }

\* the log service of a service: none, or a directory with a status file
\* that cannot be opened, is that of a running service, or has the stamp
\* 2^64 - 1
LogDirs ==
    { None } \cup
    { Some(ServiceFiles(d, st, None)) :
        d \in DownMarkers,
        st \in { CannotOpen,
                 StatusRecordOf(<< 16384, 0, 26000, 4660 >>, << 211, 4, 0, 0 >>, 1),
                 StatusRecordOf(<< 65535, 65535, 65535, 65535 >>, << 211, 4, 0, 0 >>, 1) } }

ServiceFileSets ==
    { ServiceFiles(d, st, l) : d \in DownMarkers, st \in DescStatusFiles, l \in LogDirs }

DescIdle ==
    /\ svcFiles = [n \in ServiceNames |-> ServiceFiles(Absent, CannotOpen, None)]
    /\ wantPstree = FALSE
    /\ descs = [n \in ServiceNames |-> DescPanic]
    /\ abortedBy = ""

\* the descriptor of one more service is built; a panic ends the process
FromRunitService ==
    /\ abortedBy = ""
    /\ \E n \in ServiceNames, io \in DescIo :
         /\ descs[n] = NotBuilt
         /\ LET r == from_runit_service(n, svcFiles[n], wantPstree, TRUE, io)
            IN  IF r.kind = "Panic"
                THEN abortedBy' = n /\ UNCHANGED descs
                ELSE descs' = [descs EXCEPT ![n] = r] /\ UNCHANGED abortedBy
    /\ UNCHANGED <<svcFiles, wantPstree>>
    /\ UNCHANGED outsideDesc

-----------------------------------------------------------------------------
(* Specifications *)

\* each specification runs one component and leaves the others at rest
IdleOutsideStatus ==
    /\ ControlIdle /\ RegistryIdle /\ ToggleIdle /\ TreeIdle /\ FollowIdle /\ StartIdle
    /\ BytesIdle
    /\ DescIdle

IdleOutsideControl ==
    /\ StatusIdle /\ RegistryIdle /\ ToggleIdle /\ TreeIdle /\ FollowIdle /\ StartIdle
    /\ BytesIdle
    /\ DescIdle

IdleOutsideRegistry ==
    /\ StatusIdle /\ ControlIdle /\ ToggleIdle /\ TreeIdle /\ FollowIdle /\ StartIdle
    /\ BytesIdle
    /\ DescIdle

IdleOutsideToggle ==
    /\ StatusIdle /\ ControlIdle /\ RegistryIdle /\ TreeIdle /\ FollowIdle /\ StartIdle
    /\ BytesIdle
    /\ DescIdle

IdleOutsideTree ==
    /\ StatusIdle /\ ControlIdle /\ RegistryIdle /\ ToggleIdle /\ FollowIdle /\ StartIdle
    /\ BytesIdle
    /\ DescIdle

IdleOutsideFollow ==
    /\ StatusIdle /\ ControlIdle /\ RegistryIdle /\ ToggleIdle /\ TreeIdle /\ StartIdle
    /\ BytesIdle
    /\ DescIdle

IdleOutsideStart ==
    /\ StatusIdle /\ ControlIdle /\ RegistryIdle /\ ToggleIdle /\ TreeIdle /\ FollowIdle
    /\ BytesIdle
    /\ DescIdle

IdleOutsideBytes ==
    /\ StatusIdle /\ ControlIdle /\ RegistryIdle /\ ToggleIdle /\ TreeIdle /\ FollowIdle
    /\ StartIdle
    /\ DescIdle

IdleOutsideDesc ==
    /\ StatusIdle /\ ControlIdle /\ RegistryIdle /\ ToggleIdle /\ TreeIdle /\ FollowIdle
    /\ StartIdle
    /\ BytesIdle

\* one decoding of one status file
StatusInit ==
    /\ statusFile \in StatusFiles
    /\ statusResult = [kind |-> "NotRun"]
    /\ IdleOutsideStatus

SpecStatus == StatusInit /\ [][GetStatus]_vars

\* one run of one control subcommand over a list of services
ControlInit ==
    /\ IdleOutsideControl
    /\ svdir \in [ServiceNames -> ServiceDirs]
    /\ cmd \in ControlCommands
    /\ services \in ServiceLists
    /\ pc = "begin"
    /\ idx = 1
    /\ log = << >>
    /\ runResult = "Running"
    /\ lastSend = NoSend

ControlNext ==
    \/ RunBegin
    \/ RunValid
    \/ RunSend
    \/ RunRestartTerm
    \/ RunRestartCont
    \/ RunRestartUp
    \/ RunEnd

SpecControl == ControlInit /\ [][ControlNext]_vars

\* one call of get_services on one service directory
RegistryInit ==
    /\ IdleOutsideRegistry
    /\ dirReadable \in BOOLEAN
    /\ dirEntries \in (IF dirReadable THEN Listings(MaxEntries) ELSE { << >> })
    /\ logFlag \in BOOLEAN
    /\ filter \in Filters
    /\ listResult = [kind |-> "NotRun"]

SpecRegistry == RegistryInit /\ [][GetServices]_vars

\* calls of enable and disable made on one service, one after the other
ToggleInit ==
    /\ IdleOutsideToggle
    /\ svcDir \in ToggleDirs
    /\ opLog = << >>

ToggleNext == Enable \/ Disable

SpecToggle == ToggleInit /\ [][ToggleNext]_vars

\* one call of get_pstree on one process table
TreeInit ==
    /\ IdleOutsideTree
    /\ procReadable \in BOOLEAN
    /\ procTable \in (IF procReadable THEN ProcTables(MaxProcs) ELSE { << >> })
    /\ rootPid \in RootPids
    /\ treeResult = [kind |-> "NotRun", text |-> << >>, ids |-> << >>]

SpecTree == TreeInit /\ [][GetPstree]_vars

\* the initial phase of follow_file_filtered on a file that does not change
TailInit ==
    /\ IdleOutsideFollow
    /\ logFile \in StaticFiles
    /\ nextId = Len(logFile) + 1
    /\ filterStr \in FilterSamples
    /\ nLines \in LineCounts
    /\ readAll \in BOOLEAN
    /\ fpc = "open"
    /\ fpos = 0
    /\ pos = 0
    /\ partial = << >>
    /\ printed = << >>
    /\ followResult = "Running"
    /\ writes = 0
    /\ tailFile = << >>
    /\ idle = FALSE
    /\ shrunkAt = -1

SpecTail == TailInit /\ [][TailRead]_vars

\* one run of follow_file_filtered next to the writer of the file
FollowInit ==
    /\ IdleOutsideFollow
    /\ logFile \in StartFiles
    /\ nextId = Len(logFile) + 1
    /\ filterStr \in FilterSamples
    /\ nLines \in LineCounts
    /\ readAll \in BOOLEAN
    /\ fpc = "open"
    /\ fpos = 0
    /\ pos = 0
    /\ partial = << >>
    /\ printed = << >>
    /\ followResult = "Running"
    /\ writes = 0
    /\ tailFile = << >>
    /\ idle = FALSE
    /\ shrunkAt = -1

FollowNext ==
    \/ TailRead
    \/ SeekEnd
    \/ FollowStep
    \/ Interrupt
    \/ WriterAppend
    \/ WriterFinish
    \/ WriterTruncate

SpecFollow == FollowInit /\ [][FollowNext]_vars

\* one computation of the offset of the initial read
StartInit ==
    /\ IdleOutsideStart
    /\ startFileLen \in FileLengths
    /\ startLines \in LineCounts64
    /\ startAll \in BOOLEAN
    /\ startResult = [kind |-> "NotRun", val |-> u64(0)]

SpecStart == StartInit /\ [][GetTailStart]_vars

\* one run of the follow loop on a file that is appended to, from the
\* follow position on
BytesInit ==
    /\ IdleOutsideBytes
    /\ byteFile = << >>
    /\ byteFilter \in ByteFilters
    /\ bytePos = 0
    /\ bytePartial = << >>
    /\ bytePrinted = << >>
    /\ byteResult = "Running"
    /\ byteWrites = 0

BytesNext ==
    \/ FollowBytesStep
    \/ WriteBytes

SpecBytes == BytesInit /\ [][BytesNext]_vars

\* the descriptors of the services of a listing are built, one by one
DescInit ==
    /\ IdleOutsideDesc
    /\ svcFiles \in [ServiceNames -> ServiceFileSets]
    /\ wantPstree \in BOOLEAN
    /\ descs = [n \in ServiceNames |-> NotBuilt]
    /\ abortedBy = ""

SpecDesc == DescInit /\ [][FromRunitService]_vars

-----------------------------------------------------------------------------
(* Claims about status decoding, checked under SpecStatus *)

Decoded == statusResult.kind # "NotRun"

Is20 == statusFile.exists /\ Len(statusFile.data) = 20

\* the 4 little-endian bytes of an i32, two's complement
LeBytesOfPid(p) ==
    << p % 256, (p \div 256) % 256, (p \div 65536) % 256, (p \div 16777216) % 256 >>

\* a + b on limbs, the carry out of the top limb dropped
RECURSIVE AddLimbs(_, _, _)
AddLimbs(a, b, carry) ==
    IF a = << >> THEN << >>
    ELSE LET n == Len(a)
             s == a[n] + b[n] + carry
         IN  AddLimbs(SubSeq(a, 1, n - 1), SubSeq(b, 1, n - 1), s \div Limb)
                \o << s % Limb >>

\* the file with the bytes at (1-based) positions from..from+Len(bs)-1 replaced
WithBytes(f, from, bs) ==
    [f EXCEPT !.data = [i \in 1..Len(f.data) |->
        IF i >= from /\ i < from + Len(bs) THEN bs[i - from + 1] ELSE f.data[i]]]

\* C1: decoding fails for every status input whose length is not exactly 20
\* bytes, shorter or longer, and never returns a record for such an input.
C1_WrongLengthFails ==
    (Decoded /\ statusFile.exists /\ Len(statusFile.data) # 20)
        => statusResult.kind # "Ok"

\* C2: for every 20-byte record, get_status returns a record whose pid is the
\* 32-bit value at offsets 12-15 (0 decoded as no process), whose paused flag
\* is true iff byte 16 is 1 and whose want is byte 17; bytes 8-11 and 18 do
\* not affect the result.
C2_FieldsReproduced ==
    (Decoded /\ Is20) =>
        LET d == statusFile.data
        IN  /\ statusResult.kind = "Ok"
            /\ statusResult.pid.some = (SubSeq(d, 13, 16) # << 0, 0, 0, 0 >>)
            /\ statusResult.pid.some
                   => LeBytesOfPid(statusResult.pid.val) = SubSeq(d, 13, 16)
            /\ statusResult.paused = (d[17] = 1)
            /\ statusResult.want = d[18]
            /\ \A pad \in PadSamples, x \in Byte18Samples :
                 get_status(WithBytes(WithBytes(statusFile, 9, pad), 19, << x >>))
                     = statusResult

\* C3: with T the TAI64 value of a 20-byte record and K the epoch offset,
\* T >= K gives a present start time of T - K seconds after the epoch, and
\* T < K gives an absent start time with decoding still succeeding.
C3_StartTime ==
    (Decoded /\ Is20) =>
        LET T == SubSeq(statusFile.data, 1, 8)
            K == << 64, 0, 0, 0, 0, 0, 0, 10 >>
            TgeK == \/ T = K
                    \/ \E i \in 1..8 : /\ SubSeq(T, 1, i - 1) = SubSeq(K, 1, i - 1)
                                       /\ T[i] > K[i]
        IN  /\ statusResult.kind = "Ok"
            /\ statusResult.start_time.some = TgeK
            /\ TgeK => Bytes8(AddLimbs(statusResult.start_time.val, offset, 0)) = T

\* C4: the decoded state is a total function of byte 19 of the record: 0 is
\* Down, 1 is Run, 2 is Finish, every other value is Unknown, and no value of
\* byte 19 decides whether decoding fails.
C4_StateOfByte19 ==
    (Decoded /\ Is20) =>
        /\ statusResult.kind = "Ok" =>
             statusResult.state =
                 (IF statusFile.data[20] = 0 THEN "Down"
                  ELSE IF statusFile.data[20] = 1 THEN "Run"
                  ELSE IF statusFile.data[20] = 2 THEN "Finish" ELSE "Unknown")
        /\ \A b \in 0..255 :
             LET r == get_status(WithBytes(statusFile, 20, << b >>))
             IN  /\ r.kind = statusResult.kind
                 /\ r.kind = "Ok" =>
                      /\ r.state \in { "Down", "Run", "Finish", "Unknown" }
                      /\ (r.state = "Down") = (b = 0)
                      /\ (r.state = "Run") = (b = 1)
                      /\ (r.state = "Finish") = (b = 2)

\* a record with state byte 255 has been decoded to Unknown
C4_Witness ==
    /\ Decoded /\ Is20
    /\ statusFile.data[20] = 255
    /\ statusResult.kind = "Ok"
    /\ statusResult.state = "Unknown"


\* C27: get_status is total on 20-byte records: for every one of them, a
\* TAI64 field of 2^64 - 1 included, it returns a status record and neither
\* aborts nor overflows when it turns the seconds into a timestamp.
C27_TotalOn20Bytes ==
    (Decoded /\ Is20) => statusResult.kind = "Ok"

\* get_status returns a record for every 20-byte record whose seconds since
\* the epoch are below 2^63
C27_TotalBelowOverflow ==
    (Decoded /\ Is20 /\ statusResult.kind # "Ok") =>
        LET tai == from_be_bytes_u64(SubSeq(statusFile.data, 1, 8))
        IN  GeLimbs(tai, offset) /\ EpochPlusOverflows(SubLimbs(tai, offset, 0))

-----------------------------------------------------------------------------
(* Claims about the control channel, checked under SpecControl *)

\* the control byte table of the documentation, as code points
ControlByteTable ==
    [Up |-> 117, Down |-> 100, Once |-> 111, Pause |-> 112, Cont |-> 99,
     Hup |-> 104, Alarm |-> 97, Interrupt |-> 105, Quit |-> 113, Term |-> 116,
     Kill |-> 107, Exit |-> 120]

Sent == lastSend.res # "None"

Last(q) == q[Len(q)]

\* C5: the 12 control commands map to the bytes u d o p c h a i q t k x, no
\* two commands map to the same byte, and so the byte a successful send left
\* in the pipe tells which command was sent.
C5_ToCharOneToOne ==
    /\ DOMAIN ControlByteTable = RunitCommand
    /\ Cardinality(RunitCommand) = 12
    /\ \A c \in RunitCommand : to_char(c) = ControlByteTable[c]
    /\ \A c1, c2 \in RunitCommand : to_char(c1) = to_char(c2) => c1 = c2
    /\ (Sent /\ lastSend.res = "Ok") =>
           \A c \in RunitCommand :
               (Last(svdir[lastSend.svc].pipe) = as_u8(to_char(c))) = (c = lastSend.cmd)

\* an exit command has been sent and its byte x is in the pipe
C5_Witness ==
    /\ Sent /\ lastSend.res = "Ok" /\ lastSend.cmd = "Exit"
    /\ Last(svdir[lastSend.svc].pipe) = 120

\* C6: when supervise/control does not exist, a send returns the 'not
\* supervised' error, which no send to an existing path returns, writes no
\* byte to any pipe and creates no file.
C6_NotSupervised ==
    Sent =>
        /\ (lastSend.res = "NotSupervised") = ~lastSend.before[lastSend.svc].control
        /\ ~lastSend.before[lastSend.svc].control => svdir = lastSend.before

\* a send to a supervised service without control pipe has been refused
C6_Witness ==
    /\ Sent /\ lastSend.res = "NotSupervised"
    /\ lastSend.before[lastSend.svc].supervise
    /\ ~svdir[lastSend.svc].control

\* C7: a successful send appends exactly one byte to the pipe of its service,
\* the byte mapped from the command, and a send that returns an error appends
\* no byte; no other pipe changes.
C7_OneByte ==
    Sent =>
        /\ \A n \in ServiceNames \ { lastSend.svc } : svdir[n] = lastSend.before[n]
        /\ lastSend.res = "Ok" =>
               svdir[lastSend.svc].pipe =
                   Append(lastSend.before[lastSend.svc].pipe, ControlByteTable[lastSend.cmd])
        /\ lastSend.res # "Ok" => svdir[lastSend.svc].pipe = lastSend.before[lastSend.svc].pipe

\* a byte has been appended to a pipe that already held bytes
C7_Witness ==
    /\ Sent /\ lastSend.res = "Ok"
    /\ Len(lastSend.before[lastSend.svc].pipe) >= 1
    /\ Len(svdir[lastSend.svc].pipe) = Len(lastSend.before[lastSend.svc].pipe) + 1

IsPrefix(p, q) == Len(p) <= Len(q) /\ p = SubSeq(q, 1, Len(p))

\* the pipe of the service of log entry i when run was done with it
PipeAfter(i) ==
    LET later == { j \in (i + 1)..Len(log) : log[j].name = log[i].name }
    IN  IF later = { } THEN svdir[log[i].name].pipe
        ELSE log[CHOOSE j \in later : \A k \in later : j <= k].before

\* the bytes run has added to the pipe of the service of log entry i
WrittenFor(i) ==
    SubSeq(PipeAfter(i), Len(log[i].before) + 1, Len(PipeAfter(i)))

OkCount(atts) == Cardinality({ j \in 1..Len(atts) : atts[j].res = "Ok" })

\* C8: a restart sends terminate, continue, up in that order: at every moment
\* the sends made for a service are a prefix of Term, Cont, Up, each send but
\* the first follows a successful one, and the bytes written are a prefix of
\* t c u with one byte per successful send, also after a later send failed.
C8_RestartSequence ==
    cmd = "Restart" =>
        \A i \in 1..Len(log) :
            LET atts == log[i].attempts
            IN  /\ IsPrefix([j \in 1..Len(atts) |-> atts[j].cmd], << "Term", "Cont", "Up" >>)
                /\ \A j \in 2..Len(atts) : atts[j - 1].res = "Ok"
                /\ IsPrefix(log[i].before, PipeAfter(i))
                /\ IsPrefix(WrittenFor(i), << 116, 99, 117 >>)
                /\ Len(WrittenFor(i)) = OkCount(atts)

\* a restart whose continue failed after its terminate was written
C8_Witness ==
    /\ cmd = "Restart"
    /\ \E i \in 1..Len(log) :
         /\ Len(log[i].attempts) = 2
         /\ log[i].attempts[2].res = "WriteFailed"
         /\ log[i].printed = "failed"
         /\ WrittenFor(i) = << 116 >>

\* every service of the list was handled, in the order of the list, whatever
\* happened to the services before it
C20_EveryServiceProcessed ==
    (pc = "done" /\ services # << >>) =>
        /\ Len(log) = Len(services)
        /\ \A i \in 1..Len(services) :
             /\ log[i].name = services[i]
             /\ log[i].printed \in {"ok", "failed", "not valid"}
             /\ log[i].printed = "not valid" <=> ~log[i].valid

\* C20: a control subcommand over a list of services handles every service
\* of the list in order whatever happened to the earlier ones, and what it
\* returns signals failure when at least one service was invalid or its send
\* failed, success only when every service succeeded.
C20_AggregateResult ==
    /\ C20_EveryServiceProcessed
    /\ (pc = "done" /\ services # << >>) =>
         (runResult = "Ok" <=> \A i \in 1..Len(log) : log[i].printed = "ok")

\* C29: a control subcommand never sends to a service whose supervise
\* directory does not exist: the validity check comes before any send, the
\* service is reported as failed ("service not valid") with no send attempted
\* and no byte written, for the single commands and for all three steps of a
\* restart alike.
C29_InvalidNeverSent ==
    /\ \A n \in ServiceNames : ~svdir[n].supervise => svdir[n].pipe = << >>
    /\ \A i \in 1..Len(log) :
         ~svdir[log[i].name].supervise =>
             /\ ~log[i].valid
             /\ log[i].attempts = << >>
             /\ log[i].printed = "not valid"
             /\ WrittenFor(i) = << >>
    /\ Sent => lastSend.before[lastSend.svc].supervise

\* a restart over two services: the first has no supervise directory and was
\* reported as not valid, the second got all three bytes
C29_Witness ==
    /\ cmd = "Restart"
    /\ pc = "done"
    /\ Len(log) = 2
    /\ ~svdir[log[1].name].supervise
    /\ log[1].printed = "not valid"
    /\ log[2].printed = "ok"
    /\ WrittenFor(2) = << 116, 99, 117 >>

-----------------------------------------------------------------------------
(* Claims about get_services, checked under SpecRegistry *)

Listed == listResult.kind = "Ok"

\* a < b byte-wise: a is a proper prefix of b, or smaller where they first differ
StrLess(a, b) ==
    \/ Len(a) < Len(b) /\ a = SubSeq(b, 1, Len(a))
    \/ \E i \in 1..Len(a) :
         /\ i <= Len(b)
         /\ SubSeq(a, 1, i - 1) = SubSeq(b, 1, i - 1)
         /\ a[i] < b[i]

\* p < q component by component
PathLess(p, q) ==
    \/ Len(p) < Len(q) /\ p = SubSeq(q, 1, Len(p))
    \/ \E i \in 1..Len(p) :
         /\ i <= Len(q)
         /\ SubSeq(p, 1, i - 1) = SubSeq(q, 1, i - 1)
         /\ StrLess(p[i], q[i])

\* a descriptor of a service, directly under the directory (not of a log)
IsServiceDescriptor(d) == Len(d.path) = Len(SvDir) + 1

\* C9 as stated: the returned list is sorted by descriptor name ascending,
\* for every directory content and both values of the log flag.
C9_SortedByName ==
    Listed =>
        \A i, j \in 1..Len(listResult.list) :
            i < j => ~StrLess(listResult.list[j].name, listResult.list[i].name)

\* C9 amended: the returned list is sorted ascending by descriptor path,
\* component by component, for both values of the log flag; the service
\* descriptors are in ascending name order among themselves, and they are the
\* whole list when the log flag is unset.
C9_SortedByPath ==
    Listed =>
        LET l == listResult.list
        IN  /\ \A i, j \in 1..Len(l) : i < j => PathLess(l[i].path, l[j].path)
            /\ \A i, j \in 1..Len(l) :
                 (i < j /\ IsServiceDescriptor(l[i]) /\ IsServiceDescriptor(l[j]))
                     => StrLess(l[i].name, l[j].name)
            /\ ~logFlag => \A i \in 1..Len(l) : IsServiceDescriptor(l[i])

\* two services and a log descriptor have been listed from a directory that
\* was enumerated in another order
C9_Witness ==
    /\ Listed /\ logFlag
    /\ Len(listResult.list) >= 3
    /\ \E i \in 1..Len(listResult.list) : listResult.list[i].name = LogName
    /\ \E i, j \in 1..Len(dirEntries) :
         /\ i < j /\ dirEntries[i].is_dir /\ dirEntries[j].is_dir
         /\ StrLess(dirEntries[j].name, dirEntries[i].name)

\* the entries in the order perm
Reordered(perm) == [i \in 1..Len(dirEntries) |-> dirEntries[perm[i]]]

\* C10: for the same directory content, log flag and filter, every order in
\* which the entries are enumerated gives the same returned sequence.
C10_OrderIndependent ==
    listResult.kind # "NotRun" =>
        \A perm \in Permutations(1..Len(dirEntries)) :
            get_services(dirReadable, Reordered(perm), logFlag, filter) = listResult

\* three descriptors have been listed from entries enumerated in descending
\* name order
C10_Witness ==
    /\ Listed
    /\ Len(listResult.list) >= 3
    /\ \A i, j \in 1..Len(dirEntries) :
         i < j => StrLess(dirEntries[j].name, dirEntries[i].name)

\* sub occurs in s, case-sensitively, at some offset k
Occurs(sub, s) ==
    \E k \in 0..Len(s) :
        /\ k + Len(sub) <= Len(s)
        /\ \A m \in 1..Len(sub) : s[k + m] = sub[m]

\* the entries that are directories whose name the filter retains
Retained ==
    { i \in 1..Len(dirEntries) :
        /\ dirEntries[i].is_dir
        /\ filter.some => Occurs(filter.val, dirEntries[i].name) }

ServicePositions ==
    { i \in 1..Len(listResult.list) : IsServiceDescriptor(listResult.list[i]) }

\* a, c, b (directories) and one regular file, in this order
ExampleListing ==
    << Entry(<< 97 >>, TRUE, FALSE), Entry(<< 99 >>, TRUE, FALSE),
       Entry(<< 255 >>, FALSE, FALSE), Entry(<< 98 >>, TRUE, FALSE) >>

\* C11: with the log flag unset, the list get_services returns holds exactly
\* one descriptor (name, directory/name) for each entry that is a directory
\* and whose name contains the filter as a case-sensitive substring (every
\* directory without filter) and nothing else; directories a, c, b and one
\* regular file give exactly [a, b, c].
C11_ExactlyMatchingDirs ==
    /\ (Listed /\ ~logFlag) =>
         LET l == listResult.list
         IN  /\ Len(l) = Cardinality(Retained)
             /\ \A i \in Retained : \E j \in 1..Len(l) :
                  /\ l[j].name = dirEntries[i].name
                  /\ l[j].path = Append(SvDir, dirEntries[i].name)
             /\ \A j \in 1..Len(l) : \E i \in Retained : l[j].name = dirEntries[i].name
    /\ get_services(TRUE, ExampleListing, FALSE, None) =
         [kind |-> "Ok",
          list |-> << [path |-> Append(SvDir, << 97 >>), name |-> << 97 >>],
                      [path |-> Append(SvDir, << 98 >>), name |-> << 98 >>],
                      [path |-> Append(SvDir, << 99 >>), name |-> << 99 >>] >>]

\* a listing with a regular file, a directory the filter removes and a
\* directory it retains by a match inside the name
C11_Witness ==
    /\ Listed /\ ~logFlag /\ filter = Some(<< 45, 98 >>)
    /\ Len(listResult.list) = 1
    /\ listResult.list[1].name = << 97, 45, 98 >>
    /\ \E i \in 1..Len(dirEntries) : ~dirEntries[i].is_dir
    /\ \E i \in 1..Len(dirEntries) : dirEntries[i].is_dir /\ i \notin Retained

\* C12: with the log flag set, each retained service S whose S/log exists has
\* exactly one more descriptor, of path S/log, directly behind its own; a
\* service without S/log, or removed by the filter, has none.
C12_LogAfterParent ==
    (Listed /\ logFlag) =>
        LET l == listResult.list
            withLog == { i \in Retained : dirEntries[i].has_log }
        IN  /\ Cardinality(ServicePositions) = Cardinality(Retained)
            /\ Len(l) = Cardinality(Retained) + Cardinality(withLog)
            /\ \A i \in Retained : \E j \in ServicePositions :
                 /\ l[j].name = dirEntries[i].name
                 /\ IF dirEntries[i].has_log
                    THEN /\ j < Len(l)
                         /\ l[j + 1].path = Append(l[j].path, LogComponent)
                         /\ l[j + 1].name = LogName
                    ELSE j = Len(l) \/ (j + 1) \in ServicePositions
            /\ \A j \in 1..Len(l) :
                 j \notin ServicePositions =>
                     /\ j > 1 /\ (j - 1) \in ServicePositions
                     /\ l[j].path = Append(l[j - 1].path, LogComponent)

\* services a (with a/log) and a-b have been listed with the log flag set
C12_Witness ==
    /\ Listed /\ logFlag
    /\ \E j \in 1..Len(listResult.list) :
         /\ j + 2 <= Len(listResult.list)
         /\ listResult.list[j].name = << 97 >>
         /\ listResult.list[j + 1].name = LogName
         /\ listResult.list[j + 2].name = << 97, 45, 98 >>
    /\ \E i \in 1..Len(dirEntries) : dirEntries[i].has_log /\ i \notin Retained


-----------------------------------------------------------------------------
(* Claims about enable and disable, checked under SpecToggle *)

\* the calls of op made so far
CallsOf(op) == { i \in 1..Len(opLog) : opLog[i].op = op }

\* C13: enable succeeds with service/down present (a file) and with it
\* absent; after every successful enable service/down does not exist, so
\* enabled is true, and every other file of the service is as it was.
C13_EnableRemovesMarker ==
    \A i \in CallsOf("enable") :
        LET e == opLog[i]
        IN  /\ (e.io = "none" /\ e.before.down.kind # "dir") => e.res = "Ok"
            /\ e.res = "Ok" =>
                 /\ enabled(e.after)
                 /\ e.after.down = Absent
                 /\ e.after.run = e.before.run
                 /\ e.after.exists = e.before.exists
            /\ (i = Len(opLog)) => svcDir = e.after

\* enable has succeeded once on a service with a marker and once on a service
\* without one
C13_Witness ==
    /\ \E i \in CallsOf("enable") :
         opLog[i].res = "Ok" /\ opLog[i].before.down = RegularFile(3)
    /\ \E i \in CallsOf("enable") :
         opLog[i].res = "Ok" /\ opLog[i].before.exists /\ opLog[i].before.down = Absent
    /\ enabled(svcDir)

\* C14: after every successful disable service/down exists and is empty and
\* enabled is false; disable of a service disabled by a marker file succeeds
\* and leaves what one disable leaves; an enable that follows a disable and
\* succeeds makes enabled true again.
C14_DisableIdempotent ==
    \A i \in CallsOf("disable") :
        LET e == opLog[i]
        IN  /\ e.res = "Ok" =>
                 /\ e.after.down = RegularFile(0)
                 /\ ~enabled(e.after)
                 /\ e.after.run = e.before.run
                 /\ disable(e.after, "none") = [res |-> "Ok", dir |-> e.after]
            /\ (e.io = "none" /\ e.before.down.kind = "file") =>
                 /\ e.res = "Ok"
                 /\ e.after = disable(disable(e.before, "none").dir, "none").dir
            /\ (i > 1 /\ opLog[i - 1].op = "disable" /\ opLog[i - 1].res = "Ok"
                      /\ e.io = "none") =>
                 e.res = "Ok" /\ e.after = e.before
            /\ (i < Len(opLog) /\ e.res = "Ok" /\ opLog[i + 1].op = "enable"
                      /\ opLog[i + 1].res = "Ok") =>
                 enabled(opLog[i + 1].after)

\* a service with a marker of 3 bytes has been disabled twice, then enabled
C14_Witness ==
    /\ Len(opLog) = 3
    /\ opLog[1].op = "disable" /\ opLog[1].res = "Ok"
    /\ opLog[1].before.down = RegularFile(3)
    /\ opLog[2].op = "disable" /\ opLog[2].res = "Ok"
    /\ opLog[3].op = "enable" /\ opLog[3].res = "Ok"
    /\ enabled(svcDir)


-----------------------------------------------------------------------------
(* Claims about the process tree, checked under SpecTree *)

\* get_pstree has been called and has returned
TreeBuilt == treeResult.kind \notin {"NotRun", "Panic"}

\* the ids the scan of the table takes up: the entries with a numeric name
\* and a readable stat, and their tasks with a numeric name other than their
\* own whose stat is readable and has both parentheses
ScannedIds ==
    LET procs == { i \in 1..Len(procTable) :
                     all_numeric(procTable[i].name) /\ procTable[i].stat.some }
        tasks(i) == IF procTable[i].task.some THEN procTable[i].task.val ELSE << >>
    IN  { parse_or_0(procTable[i].name) : i \in procs } \cup
        UNION { { parse_or_0(tasks(i)[k].name) :
                    k \in { m \in 1..Len(tasks(i)) :
                              /\ all_numeric(tasks(i)[m].name)
                              /\ tasks(i)[m].name # procTable[i].name
                              /\ tasks(i)[m].stat.some
                              /\ \E a, b \in 1..Len(tasks(i)[m].stat.val) :
                                   /\ tasks(i)[m].stat.val[a] = 40
                                   /\ tasks(i)[m].stat.val[b] = 41 } } :
                i \in procs }

\* C15: get_pstree returns the empty string, and no error, whenever the root
\* is not among the ids scanned from the process table, whatever else the
\* table holds.
C15_AbsentRootEmpty ==
    (TreeBuilt /\ procReadable /\ rootPid \notin ScannedIds) =>
        treeResult.kind = "Ok" /\ treeResult.text = << >>

\* a table with processes and threads has been scanned for a root it does
\* not hold, once a root that never was there and once a root whose stat
\* could not be read
C15_Witness ==
    /\ TreeBuilt /\ procReadable
    /\ rootPid \notin ScannedIds
    /\ Cardinality(ScannedIds) >= 3
    /\ rootPid = 40 \/ \E i \in 1..Len(procTable) :
                         procTable[i].name = to_string(rootPid)

\* the number of lines of a text: its line feeds, and the last line
Lines(text) ==
    IF text = << >> THEN 0
    ELSE Cardinality({ i \in 1..Len(text) : text[i] = 10 }) + 1

\* the parent links of processes 10 and 20 form a cycle
CyclicTable == << PlainProc(10, 20), PlainProc(20, 10) >>

\* C16: for every process table, cyclic parent links included, rendering
\* from any root ends and writes each process or thread id at most once,
\* one line each; the root is written first and never again.  Processes 10
\* and 20, each the parent of the other, rooted at 10 give 10 and below it
\* 20.
C16_EachIdOnce ==
    /\ (TreeBuilt /\ procReadable) =>
         LET ids == treeResult.ids
         IN  /\ treeResult.kind = "Ok"
             /\ \A i, j \in 1..Len(ids) : ids[i] = ids[j] => i = j
             /\ \A i \in 1..Len(ids) : ids[i] = rootPid <=> i = 1
             /\ \A i \in 1..Len(ids) : ids[i] \in ScannedIds
             /\ Lines(treeResult.text) = Len(ids)
    /\ get_pstree(10, TRUE, CyclicTable).ids = << 10, 20 >>
    /\ Lines(get_pstree(10, TRUE, CyclicTable).text) = 2

\* a tree has been rendered from a table in which an id is the child of
\* its own descendant, or stands twice among the children of one node
C16_Witness ==
    /\ TreeBuilt /\ rootPid = 10
    /\ \/ procTable = CyclicTable
       \/ procTable = << RacedProc(10, 1), PlainProc(20, 10) >>
    /\ treeResult.ids = << 10, 20 >>


\* the position of the first line feed of a text that has one
first_newline_at(text) ==
    CHOOSE i \in 1..Len(text) : text[i] = 10 /\ \A j \in 1..(i - 1) : text[j] # 10

\* the first line of a text
FirstLine(text) ==
    IF \E i \in 1..Len(text) : text[i] = 10
    THEN SubSeq(text, 1, first_newline_at(text) - 1)
    ELSE text

\* the entries of the table that the scan takes up as the process rootPid
RootEntries ==
    { i \in 1..Len(procTable) :
        /\ all_numeric(procTable[i].name)
        /\ procTable[i].stat.some
        /\ parse_or_0(procTable[i].name) = rootPid }

\* the ids the scan takes up as threads
TaskIds ==
    LET tasks(i) == IF procTable[i].task.some THEN procTable[i].task.val ELSE << >>
    IN  UNION { { parse_or_0(tasks(i)[k].name) : k \in 1..Len(tasks(i)) } :
                  i \in 1..Len(procTable) }

\* the root is a process of the table and no thread of it
RootIsProcess == Cardinality(RootEntries) = 1 /\ rootPid \notin TaskIds

RootEntry == procTable[CHOOSE i \in RootEntries : TRUE]

\* the name the order of preference gives a process: its command line joined
\* by spaces, else the name between the parentheses of stat, else its id
PreferredName(e, pid) ==
    IF e.cmdline.some /\ e.cmdline.val # << >>
    THEN trim(replace_nul(e.cmdline.val))
    ELSE IF comm_of(e.stat.val).some THEN comm_of(e.stat.val).val
    ELSE to_string(pid)

\* C23: the display name of a process is its command line joined by spaces
\* when that can be read and is not empty, otherwise the short name between
\* the parentheses of its stat record, otherwise its numeric id; a process
\* whose command line cannot be read but whose stat has a parenthesized name
\* gets that short name.
C23_DisplayName ==
    (TreeBuilt /\ procReadable /\ RootIsProcess) =>
        FirstLine(treeResult.text) = PreferredName(RootEntry, rootPid)

\* the order of preference holds for every process whose command line can
\* be read; a process whose command line cannot be read is named by its id
C23_NameWhenCmdlineRead ==
    (TreeBuilt /\ procReadable /\ RootIsProcess) =>
        FirstLine(treeResult.text) =
            (IF RootEntry.cmdline.some THEN PreferredName(RootEntry, rootPid)
             ELSE to_string(rootPid))

\* the lines of a text that is not empty
RECURSIVE SplitLines(_)
SplitLines(text) ==
    IF \E i \in 1..Len(text) : text[i] = 10
    THEN << FirstLine(text) >> \o
         SplitLines(SubSeq(text, first_newline_at(text) + 1, Len(text)))
    ELSE << text >>

\* the lines of the tree returned
TreeLines == IF treeResult.text = << >> THEN << >> ELSE SplitLines(treeResult.text)

\* the maps the scan of the table has built
Scanned == scan(NoMaps, procTable)

\* a line below the root read as prefix, connector and name: the connector
\* ends at the first horizontal stroke of the line
HasConnector(line) == \E i \in 2..Len(line) : line[i] = 9472

StrokeAt(line) ==
    CHOOSE i \in 2..Len(line) : line[i] = 9472 /\ \A j \in 2..(i - 1) : line[j] # 9472

PrefixOf(line) == SubSeq(line, 1, StrokeAt(line) - 2)

ConnectorOf(line) == SubSeq(line, StrokeAt(line) - 1, StrokeAt(line))

NameOf(line) == SubSeq(line, StrokeAt(line) + 1, Len(line))

\* the depth of line k: 0 for the root, else one more than the pairs of its prefix
DepthOf(L, k) == IF k = 1 THEN 0 ELSE Len(PrefixOf(L[k])) \div 2 + 1

\* the lines above k that are one less deep: the last of them holds the
\* node under which line k was emitted
Above(L, k) == { j \in 1..(k - 1) : DepthOf(L, j) = DepthOf(L, k) - 1 }

ParentLine(L, k) == CHOOSE j \in Above(L, k) : \A i \in Above(L, k) : i <= j

\* line k is the last child emitted under its node
LastEmitted(L, k) ==
    \A m \in (k + 1)..Len(L) :
        ~(DepthOf(L, m) = DepthOf(L, k) /\ ParentLine(L, m) = ParentLine(L, k))

\* the prefix of the children of the node of line j
ChildPrefix(L, j) ==
    IF j = 1 THEN << >>
    ELSE PrefixOf(L[j]) \o (IF ConnectorOf(L[j]) = Corner THEN Blank ELSE Bar)

\* the drawing of the connectors and prefixes
WellDrawn(L) ==
    /\ L[1] = Scanned.procs[rootPid].name
    /\ \A k \in 2..Len(L) :
         /\ HasConnector(L[k])
         /\ ConnectorOf(L[k]) \in { Corner, Tee }
         /\ NameOf(L[k]) = Scanned.procs[treeResult.ids[k]].name
         /\ Above(L, k) # { }
         /\ PrefixOf(L[k]) = ChildPrefix(L, ParentLine(L, k))
         /\ (ConnectorOf(L[k]) = Corner) = LastEmitted(L, k)

\* the scan met no id twice: every id scanned pushed one child and there
\* are as many nodes as children
RECURSIVE SumLen(_, _)
SumLen(cm, keys) ==
    IF keys = { } THEN 0
    ELSE LET k == CHOOSE x \in keys : TRUE
         IN  Len(cm[k]) + SumLen(cm, keys \ {k})

DistinctIds ==
    SumLen(Scanned.cm, DOMAIN Scanned.cm) = Cardinality(DOMAIN Scanned.procs)

\* p is q or reaches q along at most n parent links
RECURSIVE ReachesIn(_, _, _)
ReachesIn(p, q, n) ==
    \/ p = q
    \/ /\ n > 0
       /\ p \in DOMAIN Scanned.procs
       /\ ReachesIn(Scanned.procs[p].ppid, q, n - 1)

NodeCount == Cardinality(DOMAIN Scanned.procs)

\* no id reaches itself along its parent links
Acyclic ==
    \A p \in DOMAIN Scanned.procs : ~ReachesIn(Scanned.procs[p].ppid, p, NodeCount)

\* a tree with lines has been returned
TreeDrawn == TreeBuilt /\ procReadable /\ treeResult.text # << >>

\* C22: among the children emitted under one node the last one emitted has
\* the corner connector and its subtree two spaces more of prefix, every
\* other one the tee connector and a bar and a space, also when child ids
\* are passed over because they were visited already or have no node; the
\* name of the root is the first line, without prefix.
C22_Connectors ==
    TreeDrawn => WellDrawn(TreeLines)

\* the connectors and prefixes are as described whenever no id was scanned
\* twice and the parent links have no cycle, so that no child is passed over
C22_ConnectorsNoneSkipped ==
    (TreeDrawn /\ DistinctIds /\ Acyclic) => WellDrawn(TreeLines)

\* the ids that are the root or reach it along their parent links
ReachRoot == { p \in DOMAIN Scanned.procs : ReachesIn(p, rootPid, NodeCount) }

\* the tables that hold the entries of q in another order
RECURSIVE Reorderings(_)
Reorderings(q) ==
    IF q = << >> THEN { << >> }
    ELSE UNION { { << q[i] >> \o r :
                     r \in Reorderings(SubSeq(q, 1, i - 1) \o SubSeq(q, i + 1, Len(q))) } :
                 i \in 1..Len(q) }

Reverse(q) == [i \in 1..Len(q) |-> q[Len(q) + 1 - i]]

\* the table with every task directory listed backwards
TasksReversed(q) ==
    [i \in 1..Len(q) |->
        IF q[i].task.some THEN [q[i] EXCEPT !.task = Some(Reverse(q[i].task.val))]
        ELSE q[i]]

\* C30: when the parent links have no cycle and no id is scanned twice, the
\* tree of a root that is in the table has exactly one line for the root and
\* for every process and thread that reaches the root along its parent
\* links, and for no other; every node is directly followed by its subtree,
\* the children of a node stand in ascending order of their ids, and the
\* order in which the table was scanned makes no difference.
C30_ExactlyDescendantsInOrder ==
    (TreeDrawn /\ DistinctIds /\ Acyclic) =>
        LET ids == treeResult.ids
            L   == TreeLines
        IN  /\ Len(L) = Len(ids)
            /\ Len(ids) = Cardinality(ReachRoot)
            /\ { ids[k] : k \in 1..Len(ids) } = ReachRoot
            /\ ids[1] = rootPid
            /\ \A k \in 1..Len(ids) :
                 LET sub == { m \in 1..Len(ids) : ReachesIn(ids[m], ids[k], NodeCount) }
                 IN  sub = k..(k + Cardinality(sub) - 1)
            /\ \A k \in 2..Len(ids) :
                 /\ Above(L, k) # { }
                 /\ Scanned.procs[ids[k]].ppid = ids[ParentLine(L, k)]
            /\ \A k, m \in 2..Len(ids) :
                 (k < m /\ Scanned.procs[ids[k]].ppid = Scanned.procs[ids[m]].ppid)
                     => ids[k] < ids[m]
            /\ \A q \in Reorderings(procTable) :
                 /\ get_pstree(rootPid, TRUE, q) = treeResult
                 /\ get_pstree(rootPid, TRUE, TasksReversed(q)) = treeResult

\* process 20 was scanned before its parent 10 and the thread 11 of 10, and
\* the tree of 10 has the thread before the process
C30_Witness ==
    /\ TreeDrawn /\ DistinctIds /\ Acyclic
    /\ rootPid = 10
    /\ procTable = << PlainProc(20, 10), ThreadedProc(10, 1) >>
    /\ treeResult.ids = << 10, 11, 20 >>

-----------------------------------------------------------------------------
(* Claims about the log follower, checked under SpecTail and SpecFollow *)

\* the initial phase has been run
TailDone == fpc # "open" /\ followResult # "Err"

\* the lines of file f that contain the filter, each as the one piece of
\* text that holds all its bytes
MatchingLines(f) ==
    LET whole == [i \in 1..Len(f) |-> << Seg(f[i], 0, f[i].written - 1) >>]
        keep  == { i \in 1..Len(f) :
                     filterStr = << >> \/ (f[i].hit # "none" /\ f[i].written = f[i].len) }
    IN  SelectSeq(whole, LAMBDA t : \E i \in keep : t[1].id = f[i].id)

\* the last n elements of q, all of them when there are fewer
LastN(q, n) == SubSeq(q, Max(Len(q) - n, 0) + 1, Len(q))

\* the texts of the lines printed by the initial phase
TailTexts ==
    LET shown == SelectSeq(printed, LAMBDA p : p.phase = "tail")
    IN  [i \in 1..Len(shown) |-> shown[i].text]

\* the initial phase printed what the claim says, whenever the file is not
\* longer than the smallest initial read
C17_ShortFileLastN ==
    (TailDone /\ ~readAll /\ file_len(tailFile) <= MinReadSize) =>
        TailTexts = LastN(MatchingLines(tailFile), nLines)

\* C17: with readAll false the initial phase prints exactly the last n lines
\* of the file that contain the filter (all of them when there are fewer),
\* each complete and in the order of the file; for 100 lines, the empty
\* filter and n = 10 these are the last 10 lines.
C17_TailExactlyLastN ==
    /\ (TailDone /\ ~readAll) =>
         TailTexts = LastN(MatchingLines(tailFile), nLines)
    /\ LET f == UniformFile(100, 50, { })
       IN  tail_lines(f, << >>, 10, FALSE) =
             [i \in 1..10 |-> PrintedLine(<< Seg(f[90 + i], 0, 49) >>, "tail")]


\* what was printed after the file was last truncated below pos
SinceShrink == SubSeq(printed, shrunkAt + 1, Len(printed))

\* the follower has caught up with a file that was truncated below pos: its
\* last poll found nothing to read and no truncation, and nothing was
\* written since
CaughtUpAfterShrink ==
    fpc = "loop" /\ followResult = "Running" /\ shrunkAt >= 0 /\ idle

\* every complete line of the file that contains the filter was printed, as
\* a whole, after the truncation
NoLineLost ==
    \A k \in 1..Len(MatchingLines(logFile)) :
        LET t == MatchingLines(logFile)[k]
        IN  ends_line(t[1]) =>
              \E i \in 1..Len(SinceShrink) :
                  SinceShrink[i].kind = "line" /\ SinceShrink[i].text = t

\* when the truncation was noticed, no line written after it is lost
C18_NoticedThenNoLineLost ==
    (CaughtUpAfterShrink /\ \E i \in 1..Len(SinceShrink) : SinceShrink[i] = Notice) =>
        pos = file_len(logFile) /\ NoLineLost

\* C18: whenever the file is shrunk below the tracked position during a
\* follow, the follower resets the position to 0, discards the partial line,
\* reads the file again from its start and prints the truncation notice, and
\* every complete matching line written after the truncation is printed: once
\* the follower has caught up with the file, all of this has happened.
C18_TruncationRecovered ==
    CaughtUpAfterShrink =>
        /\ \E i \in 1..Len(SinceShrink) : SinceShrink[i] = Notice
        /\ pos = file_len(logFile)
        /\ NoLineLost

\* C19: once the file is open and the initial lines are printed the follow
\* loop never returns Ok; the follower is running until it is interrupted
\* from outside or a step returns the error of an open, seek or read.
C19_NeverReturnsOk ==
    /\ followResult # "Ok"
    /\ followResult \in {"Running", "Err", "Interrupted"}
    /\ followResult = "Running" <=> fpc # "done"
    /\ (fpc = "loop" /\ idle) => followResult = "Running"

\* the loop has read lines, has been through a truncation and has polled at
\* the end of the file, and is still running
C19_Witness ==
    /\ fpc = "loop" /\ idle /\ followResult = "Running"
    /\ \E i \in 1..Len(printed) : printed[i] = Notice
    /\ \E i \in 1..Len(printed) : printed[i].kind = "line" /\ printed[i].phase = "follow"


\* C25: the tracked follow position never decreases except in the truncation
\* step, which sets it to exactly 0 (and prints the notice); every read of
\* k > 0 bytes moves it on by exactly k; a poll that reads nothing and sees
\* no shrink leaves it as it is.
C25_PositionSteps ==
    [][ /\ pos' < pos =>
             /\ fpc = "loop" /\ file_len(logFile) < pos
             /\ pos' = 0
             /\ printed' = Append(printed, Notice)
        /\ (fpc = "loop" /\ fpos' > fpos) => pos' - pos = fpos' - fpos
        /\ (fpc = "loop" /\ fpos' = fpos /\ file_len(logFile) >= pos) => pos' = pos
      ]_vars

\* the position was set to 0 by a truncation, has gone on over a line of
\* 1500 bytes in two reads, and a poll at the end of the file has left it
C25_Witness ==
    /\ fpc = "loop" /\ idle
    /\ shrunkAt >= 0
    /\ \E i \in 1..Len(printed) : printed[i] = Notice
    /\ pos = 1500
    /\ file_len(logFile) = 1500

\* the file was never truncated: the ids of its lines are still 1, 2, ...
NeverTruncated == Len(logFile) = nextId - 1

\* the follower has caught up with a file that was only appended to
CaughtUp ==
    fpc = "loop" /\ followResult = "Running" /\ idle /\ NeverTruncated

\* the follow phase has printed line l of the file as a whole
PrintedWhole(l) ==
    \E i \in 1..Len(printed) :
        /\ printed[i].kind = "line" /\ printed[i].phase = "follow"
        /\ printed[i].text = << Seg(l, 0, l.len - 1) >>

\* the complete lines with the filter that were appended after the initial
\* read
AppendedSinceTail ==
    { i \in (Len(tailFile) + 1)..Len(logFile) :
        /\ logFile[i].written = logFile[i].len
        /\ filterStr = << >> \/ logFile[i].hit # "none" }

\* C28: with a writer appending to the file and no truncation, no appended
\* line is lost where the initial tail hands over to the follow phase: every
\* line appended after the initial read, those appended between its reaching
\* the end of the file and the recording of the follow position included, is
\* printed once the follower has caught up.
C28_NoLineLostAtHandOver ==
    CaughtUp => \A i \in AppendedSinceTail : PrintedWhole(logFile[i])

\* from the hand-over on the follow position and the offset of the open file
\* are the same, so that nothing written behind the recorded position is
\* passed over
C28_OffsetIsPosition ==
    (fpc = "loop" /\ NeverTruncated) => fpos = pos

-----------------------------------------------------------------------------
(* Claims about the offset of the initial read, checked under SpecStart *)

StartComputed == startResult.kind # "NotRun"

\* lineCount * 200 and max(8192, lineCount * 200) as numbers of 5 limbs
ExactEstimate == MulWide(startLines, 200, 0)

ExactWindow == max_u64(<< 0 >> \o u64(8192), ExactEstimate)

\* max(0, fileLength - max(8192, lineCount * 200)), 0 when readAll
ExactStart ==
    IF startAll \/ GeLimbs(ExactWindow, << 0 >> \o startFileLen)
    THEN << 0 >> \o u64(0)
    ELSE SubLimbs(<< 0 >> \o startFileLen, ExactWindow, 0)

\* C24: the offset of the initial read is 0 when readAll and
\* max(0, fileLength - max(8192, lineCount * 200)) otherwise; for every file
\* length and every line count the computation neither overflows nor
\* underflows, and the offset lies between 0 and fileLength.
C24_StartOffset ==
    StartComputed =>
        /\ startResult.kind = "Ok"
        /\ GeLimbs(startFileLen, startResult.val)
        /\ << 0 >> \o startResult.val = ExactStart

\* the offset is as described whenever lineCount * 200 is below 2^64
C24_StartOffsetSmallCount ==
    (StartComputed /\ Head(ExactEstimate) = 0) => C24_StartOffset

\* an offset that was computed lies between 0 and the file length, whatever
\* the line count
C24_InRangeWhenComputed ==
    (StartComputed /\ startResult.kind = "Ok") =>
        GeLimbs(startFileLen, startResult.val)

-----------------------------------------------------------------------------
(* Claims about the lines of the follow loop, checked under SpecBytes *)

\* the bytes of the file up to its last line feed: its complete lines
CompleteBytes == SubSeq(byteFile, 1, rfind(byteFile, 10))

\* the complete lines are well-formed text
WellFormed == \A i \in 1..Len(from_utf8_lossy(CompleteBytes)) :
                  from_utf8_lossy(CompleteBytes)[i] # 65533

\* the lines of a text that ends with a line feed, each without its line feed
RECURSIVE TextLines(_)
TextLines(text) ==
    IF text = << >> THEN << >>
    ELSE << SubSeq(text, 1, find(text, 10) - 1) >>
             \o TextLines(SubSeq(text, find(text, 10) + 1, Len(text)))

\* the complete lines that contain the filter, in the order of the file,
\* without the white space at their end
MatchingTextLines ==
    LET all  == TextLines(from_utf8_lossy(CompleteBytes))
        keep == SelectSeq(all, LAMBDA l : contains(l, byteFilter))
    IN  [i \in 1..Len(keep) |-> trim_end(keep[i])]

\* all the bytes of the file have been read
AllRead == byteResult = "Running" /\ bytePos = Len(byteFile)

\* what is said of the lines of the loop
LinesAsAppended ==
    /\ IsPrefix(bytePrinted, MatchingTextLines)
    /\ AllRead => bytePrinted = MatchingTextLines

\* C26: in the follow loop, without truncation and however the appended
\* bytes are split across the reads, every line appended behind the follow
\* position that ends with a line feed is printed exactly once, in order, if
\* and only if it contains the filter (the empty filter is in every line); a
\* fragment at the end without line feed is not printed before its line
\* feed has come and is then printed as one line with the bytes that
\* complete it.
C26_LinesAsAppended ==
    WellFormed => LinesAsAppended

\* the same of files whose bytes are all ASCII
C26_AsciiLines ==
    (\A i \in 1..Len(byteFile) : byteFile[i] < 128) => LinesAsAppended

-----------------------------------------------------------------------------
(* Claims about the service descriptor, checked under SpecDesc *)

\* the status of service n cannot be decoded: the file cannot be opened or
\* is too short
DecodeFails(n) == get_status(svcFiles[n].status).kind = "Err"

\* the building of the descriptor of n was begun
Attempted(n) == descs[n] # NotBuilt \/ abortedBy = n

\* the descriptor of a service whose status cannot be decoded
DegradedTo(n) ==
    /\ abortedBy # n
    /\ descs[n].kind = "Ok"
    /\ descs[n].state = "Unknown"
    /\ ~descs[n].pid.some
    /\ descs[n].enabled = (svcFiles[n].down = Absent)

\* the descriptor of m is one its own files give
OwnDescriptor(m) ==
    \E io \in DescIo : descs[m] = from_runit_service(m, svcFiles[m], wantPstree, TRUE, io)

\* C21: when the status of a service cannot be decoded (the file is missing,
\* unreadable or too short) the building of its descriptor does not fail:
\* the descriptor has the state Unknown and no pid, its enabled flag is
\* true exactly when there is no down file, and the descriptors of the
\* other services are what they are without it.
C21_DecodeFailureDegrades ==
    \A n \in ServiceNames :
        (DecodeFails(n) /\ Attempted(n)) =>
            /\ DegradedTo(n)
            /\ \A m \in ServiceNames \ {n} :
                 descs[m] # NotBuilt => OwnDescriptor(m)

\* the same whenever the status of the log service of the service does not
\* make get_status panic
C21_DegradesUnlessLogPanics ==
    \A n \in ServiceNames :
        (/\ DecodeFails(n) /\ Attempted(n)
         /\ svcFiles[n].log.some => get_status(svcFiles[n].log.val.status).kind # "Panic")
            => /\ DegradedTo(n)
               /\ \A m \in ServiceNames \ {n} :
                    descs[m] # NotBuilt => OwnDescriptor(m)

=============================================================================
